---- MODULE Spec2Model ----
(***************************************************************************)
(* Vista: the document chunker (vista/text_chunker.py), the query engine    *)
(* (vista/query_engine.py), the LLM clients (vista/llm_openai.py,           *)
(* vista/llm_gemini.py), the concurrent request handler and its middleware *)
(* (vista/concurrent_requests.py), the graceful shutdown handler           *)
(* (vista/graceful_shutdown.py) and the alert manager                      *)
(* (vista/monitoring.py) as state machines.                                *)
(*                                                                         *)
(* A Python str is a sequence of one-character strings; Python offsets are *)
(* 0-based, so the character at Python index i is element i + 1 here.      *)
(***************************************************************************)
EXTENDS Integers, Sequences, FiniteSets, TLC

VARIABLES
    \* ---- TextChunker ----
    chunker_pc,     \* "new" | "ready" | "config_error" | "loop" | "done"
    chunk_size,     \* self.chunk_size
    overlap,        \* self.overlap
    text,           \* document.content of the document being chunked
    start,          \* window start offset of chunk_document's loop
    chunk_index,    \* next chunk_index of chunk_document's loop
    chunks,         \* the list chunk_document builds and returns
    starts,         \* history: the value of start when each chunk was emitted
    \* ---- QueryEngine ----
    query_pc,           \* position of one query() call, "idle" before it
    max_context_tokens, \* self.max_context_tokens
    question,           \* the question argument
    intent,             \* intent, once _detect_intent has returned
    retrieved_chunks,   \* retrieved_chunks, once the index has answered
    limited_chunks,     \* limited_chunks, once _limit_context_size has returned
    prompt,             \* the last prompt built
    response,           \* the QueryResponse returned
    calls,              \* history: the collaborator calls made, in order
    failed,             \* history: the collaborator that raised, "none" if none
    served,             \* history: the query() calls that have returned
    \* ---- OpenAILLMClient / GeminiLLMClient ----
    llm_pc,         \* "idle" | "attempt" | "backoff" | "returned" | "raised"
    client,         \* "openai" | "gemini"
    entry,          \* the method called: "generate_response" | "_retry_with_backoff"
    max_retries,    \* max_retries of _retry_with_backoff
    attempt,        \* the loop variable of _retry_with_backoff
    llm_log,        \* history: the invocations of func and the sleeps, in order
    llm_result,     \* what the call returned or raised
    \* ---- ConcurrentRequestHandler ----
    max_workers,        \* config.max_workers
    queue_size,         \* config.queue_size
    request_queue,      \* self.request_queue: the request ids queued, oldest first
    sem_value,          \* self.semaphore._value
    sem_waiters,        \* self.semaphore._waiters: the tasks waiting, oldest first
    task_pc,            \* position of each task's process_request call
    active_ids,         \* self.active_requests: request_id -> calls registered
    metrics,            \* self.metrics
    enqueue_calls,      \* history: the number of enqueue_request calls made
    enqueue_result,     \* history: what the last enqueue_request returned
    \* ---- GracefulShutdownHandler ----
    shutdown_pc,            \* position of the shutdown() call, "idle" before it
    is_shutting_down,       \* context.is_shutting_down
    shutdown_start_time,    \* context.shutdown_start_time, NoTime for None
    in_flight_requests,     \* context.in_flight_requests
    max_shutdown_time,      \* context.max_shutdown_time
    cleanup_callbacks,      \* self.cleanup_callbacks: what each callback does
    async_cleanup_callbacks, \* self.async_cleanup_callbacks: likewise
    callback_index,         \* the position of shutdown()'s current for loop
    shutdown_clock,         \* datetime.now(), in seconds
    shutdown_began,         \* history: the time shutdown began, NoTime before
    shutdown_log,           \* history: the steps shutdown() has run, in order
    \* ---- AlertManager ----
    alert_cooldown_seconds, \* self.alert_cooldown_seconds
    alert_configs,          \* self.alert_configs
    alert_history,          \* self.alert_history
    notification_handlers,  \* self.notification_handlers: what each handler does
    last_alert_time,        \* self.last_alert_time, NoTime for a missing key
    alert_clock,            \* datetime.utcnow(), in seconds
    notified,               \* history: the handler invocations, in order
    check_result,           \* history: what the last check_* call returned
    last_check,             \* history: the last check_* call made
    checks_made             \* history: the number of check_* calls made

chunker_vars == <<chunker_pc, chunk_size, overlap, text, start, chunk_index,
                  chunks, starts>>

query_vars == <<query_pc, max_context_tokens, question, intent, retrieved_chunks,
                limited_chunks, prompt, response, calls, failed, served>>

retry_vars == <<llm_pc, client, entry, max_retries, attempt, llm_log, llm_result>>

handler_vars == <<max_workers, queue_size, request_queue, sem_value, sem_waiters,
                  task_pc, active_ids, metrics, enqueue_calls, enqueue_result>>

shutdown_vars == <<shutdown_pc, is_shutting_down, shutdown_start_time,
                   in_flight_requests, max_shutdown_time, cleanup_callbacks,
                   async_cleanup_callbacks, callback_index, shutdown_clock,
                   shutdown_began, shutdown_log>>

alert_vars == <<alert_cooldown_seconds, alert_configs, alert_history,
                notification_handlers, last_alert_time, alert_clock, notified,
                check_result, last_check, checks_made>>

vars == <<chunker_vars, query_vars, retry_vars, handler_vars, shutdown_vars,
          alert_vars>>

\* no TextChunker has been constructed
NoChunker ==
    /\ chunker_pc = "none"
    /\ chunk_size = 0
    /\ overlap = 0
    /\ text = <<>>
    /\ start = 0
    /\ chunk_index = 0
    /\ chunks = <<>>
    /\ starts = <<>>

\* an answer text: a fixed message, or what the LLM generator made of a prompt
Message(t) == [text |-> t, generated_for |-> <<>>]

\* QueryResponse(answer=..., sources=..., query=...)
QueryResponse(answer, sources, q) == [answer |-> answer, sources |-> sources, query |-> q]

\* query() has not returned
NoResponse == QueryResponse(Message(""), <<>>, <<>>)

\* query()'s local variables before they are assigned
QueryLocalsUnset ==
    /\ question = <<>>
    /\ intent = "unset"
    /\ retrieved_chunks = <<>>
    /\ limited_chunks = <<>>
    /\ prompt = <<>>
    /\ response = NoResponse
    /\ calls = <<>>
    /\ failed = "none"

\* no QueryEngine has been constructed
NoQueryEngine ==
    /\ query_pc = "none"
    /\ max_context_tokens = 0
    /\ QueryLocalsUnset
    /\ served = <<>>

\* what one invocation of func gives: a value it returns or an exception it
\* raises
Outcome(kind, value, error) == [kind |-> kind, value |-> value, error |-> error]

\* nothing returned or raised yet
NoOutcome == Outcome("none", <<>>, "")

\* no LLM client has been constructed
NoLLMClient ==
    /\ llm_pc = "none"
    /\ client = "none"
    /\ entry = "none"
    /\ max_retries = 0
    /\ attempt = 0
    /\ llm_log = <<>>
    /\ llm_result = NoOutcome

\* ConcurrentRequestMetrics(): the counters (the queue wait times, which are
\* wall-clock measurements, are left out)
NewMetrics ==
    [total_requests |-> 0, active_requests |-> 0, queued_requests |-> 0,
     completed_requests |-> 0, failed_requests |-> 0, max_queue_depth |-> 0]

\* no ConcurrentRequestHandler has been constructed
NoRequestHandler ==
    /\ max_workers = 0
    /\ queue_size = 0
    /\ request_queue = <<>>
    /\ sem_value = 0
    /\ sem_waiters = <<>>
    /\ task_pc = <<>>
    /\ active_ids = {}
    /\ metrics = NewMetrics
    /\ enqueue_calls = 0
    /\ enqueue_result = FALSE

\* None, where the code holds a time or nothing
NoTime == -1

\* no GracefulShutdownHandler has been constructed
NoShutdownHandler ==
    /\ shutdown_pc = "none"
    /\ is_shutting_down = FALSE
    /\ shutdown_start_time = NoTime
    /\ in_flight_requests = 0
    /\ max_shutdown_time = 0
    /\ cleanup_callbacks = <<>>
    /\ async_cleanup_callbacks = <<>>
    /\ callback_index = 0
    /\ shutdown_clock = 0
    /\ shutdown_began = NoTime
    /\ shutdown_log = <<>>

\* no alert returned: None
NoAlert == [alert_type |-> "none", severity |-> "none", timestamp |-> NoTime,
            value |-> 0, threshold |-> 0]

\* no check_* call made yet
NoCheck == [alert_type |-> "none", violation |-> FALSE]

\* no AlertManager has been constructed
NoAlertManager ==
    /\ alert_cooldown_seconds = 0
    /\ alert_configs = <<>>
    /\ alert_history = <<>>
    /\ notification_handlers = <<>>
    /\ last_alert_time = <<>>
    /\ alert_clock = 0
    /\ notified = <<>>
    /\ check_result = NoAlert
    /\ last_check = NoCheck
    /\ checks_made = 0

-----------------------------------------------------------------------------
(* Bounds *)

\* longest document content
MaxLen == 5
\* largest chunk_size a TextChunker is constructed with
MaxChunkSize == 3
\* most pieces a question is put together from
MaxPieces == 2
\* longest text of a retrieved chunk
MaxTextLen == 5
\* most chunks handed to _limit_context_size
MaxChunks == 3
\* most chunks the vector index returns to query()
MaxRetrieved == 2
\* largest max_retries _retry_with_backoff is called with
MaxRetries == 3
\* the tasks that call process_request on the one handler
NumTasks == 3
\* largest config.max_workers
MaxWorkers == 2
\* largest config.queue_size
MaxQueueSize == 2
\* most enqueue_request calls made on the one handler
MaxEnqueues == 3
\* largest context.max_shutdown_time, in seconds
MaxShutdownTime == 2
\* the time at which the shutdown clock stops
MaxShutdownClock == 5
\* most callbacks registered in each of the two cleanup lists
MaxCallbacks == 2
\* most requests in flight at once
MaxInFlight == 2
\* largest alert_cooldown_seconds tried besides the default
MaxCooldown == 1
\* the time at which the alert clock stops
MaxAlertClock == 2
\* most alert types disabled at once
MaxDisabled == 1
\* most notification handlers registered
MaxHandlers == 2
\* most check_* calls made on the one AlertManager
MaxChecks == 2
\* most query() calls made on the one QueryEngine
MaxCalls == 3

-----------------------------------------------------------------------------
(* Python str helpers *)

Max(a, b) == IF a >= b THEN a ELSE b
Min(a, b) == IF a <= b THEN a ELSE b

\* str.isspace() / the regex class \s, on the characters the model uses
IsSpace(c) == c \in {" ", "\n", "\t"}

\* s[:n] for an n that may be negative or beyond the end
SliceTo(s, n) ==
    IF n >= 0 THEN SubSeq(s, 1, Min(n, Len(s)))
    ELSE SubSeq(s, 1, Max(0, Len(s) + n))

\* s[a:b] for 0 <= a, 0 <= b
Slice(s, a, b) == SubSeq(s, a + 1, Min(b, Len(s)))

\* s.rstrip()
RECURSIVE RStrip(_)
RStrip(s) ==
    IF Len(s) > 0 /\ IsSpace(s[Len(s)]) THEN RStrip(SubSeq(s, 1, Len(s) - 1))
    ELSE s

\* s.lstrip()
RECURSIVE LStrip(_)
LStrip(s) ==
    IF Len(s) > 0 /\ IsSpace(s[1]) THEN LStrip(Tail(s))
    ELSE s

\* s.strip()
Strip(s) == LStrip(RStrip(s))

\* all strings over alphabet A of length at most n
StringsUpTo(A, n) == UNION {[1..k -> A] : k \in 0..n}

-----------------------------------------------------------------------------
(* TextChunker *)

\* the characters documents are made of: a letter, a sentence end, a blank
\* and a newline
DocAlphabet == {"a", ".", " ", "\n"}

Documents == StringsUpTo(DocAlphabet, MaxLen)

\* the file_path of the one document
DocPath == "doc.txt"

\* mutant: the pattern for '!' is missing
MatchEnds_NoExclamation(t) ==
    {i + 1 : i \in {j \in 1..(Len(t) - 1) :
                       t[j] \in {".", "?"} /\ IsSpace(t[j + 1])}}
    \cup {i \in 1..Len(t) : t[i] = "\n"}

\* match.end() of every match of the four sentence_endings patterns in t:
\* '.', '?' or '!' followed by whitespace ends after the whitespace, a
\* newline ends after itself
MatchEnds(t) ==
    {i + 1 : i \in {j \in 1..(Len(t) - 1) :
                       t[j] \in {".", "?", "!"} /\ IsSpace(t[j + 1])}}
    \cup {i \in 1..Len(t) : t[i] = "\n"}

\* best_split after the two loops: the largest match end, -1 without a match
BestSplit(t) ==
    IF MatchEnds(t) = {} THEN -1
    ELSE CHOOSE p \in MatchEnds(t) : \A r \in MatchEnds(t) : r <= p

\* TextChunker._split_on_sentences
SplitOnSentences(t) ==
    IF BestSplit(t) > 0 THEN RStrip(SliceTo(t, BestSplit(t))) ELSE t

\* mutant: an overlap equal to chunk_size is accepted
ConfigInvalid_OverlapEqual(cs, ov) == ov > cs \/ ov < 0 \/ cs <= 0

\* TextChunker.__init__: the three checks that raise ValueError
ConfigInvalid(cs, ov) == ov >= cs \/ ov < 0 \/ cs <= 0

\* mutant: the index is not counted
MakeChunk_IndexZero(t, idx) == [text |-> t, document_id |-> DocPath, chunk_index |-> 0]

\* Chunk(text=..., document_id=document.file_path, chunk_index=...)
MakeChunk(t, idx) == [text |-> t, document_id |-> DocPath, chunk_index |-> idx]

\* mutant: the window is one character too long
WindowEnd_OffByOne(s) == Min(s + chunk_size + 1, Len(text))

\* the end offset of the window that starts at s
WindowEnd(s) == Min(s + chunk_size, Len(text))

\* chunk_text of one loop iteration, before the empty-chunk fallback
WindowChunk(s) ==
    IF WindowEnd(s) < Len(text)
    THEN SplitOnSentences(Slice(text, s, WindowEnd(s)))
    ELSE Slice(text, s, Len(text))

\* chunk_text of one loop iteration
ChunkText(s) ==
    IF Len(WindowChunk(s)) = 0 THEN Slice(text, s, WindowEnd(s))
    ELSE WindowChunk(s)

\* mutant: the window moves by its full size, whatever was emitted
Advance_ByWindow(t) == Max(1, chunk_size - overlap)

\* mutant: no floor of one character
Advance_NoFloor(t) == Len(t) - overlap

\* advance = max(1, len(chunk_text) - self.overlap)
Advance(t) == Max(1, Len(t) - overlap)

InitChunker ==
    /\ chunker_pc = "new"
    /\ chunk_size \in -1..MaxChunkSize
    /\ overlap \in -1..MaxChunkSize
    /\ text = <<>>
    /\ start = 0
    /\ chunk_index = 0
    /\ chunks = <<>>
    /\ starts = <<>>
    /\ NoQueryEngine
    /\ NoLLMClient
    /\ NoRequestHandler
    /\ NoShutdownHandler
    /\ NoAlertManager

\* TextChunker.__init__
Construct ==
    /\ chunker_pc = "new"
    /\ chunker_pc' = IF ConfigInvalid(chunk_size, overlap) THEN "config_error"
                     ELSE "ready"
    /\ UNCHANGED <<chunk_size, overlap, text, start, chunk_index, chunks, starts, query_vars, retry_vars, handler_vars, shutdown_vars, alert_vars>>

\* mutant: the small document is cut at its last sentence boundary too
ChunkSmallDocument_Split ==
    /\ chunker_pc = "ready"
    /\ \E d \in Documents :
        /\ Len(d) <= chunk_size
        /\ text' = d
        /\ chunks' = <<MakeChunk(SplitOnSentences(d), 0)>>
        /\ starts' = <<0>>
    /\ chunker_pc' = "done"
    /\ UNCHANGED <<chunk_size, overlap, start, chunk_index, query_vars, retry_vars, handler_vars, shutdown_vars, alert_vars>>

\* chunk_document on a document no longer than chunk_size: one chunk
ChunkSmallDocument ==
    /\ chunker_pc = "ready"
    /\ \E d \in Documents :
        /\ Len(d) <= chunk_size
        /\ text' = d
        /\ chunks' = <<MakeChunk(d, 0)>>
        /\ starts' = <<0>>
    /\ chunker_pc' = "done"
    /\ UNCHANGED <<chunk_size, overlap, start, chunk_index, query_vars, retry_vars, handler_vars, shutdown_vars, alert_vars>>

\* chunk_document on a longer document: enter the loop
ChunkDocument ==
    /\ chunker_pc = "ready"
    /\ \E d \in Documents :
        /\ Len(d) > chunk_size
        /\ text' = d
    /\ chunks' = <<>>
    /\ starts' = <<>>
    /\ chunk_index' = 0
    /\ start' = 0
    /\ chunker_pc' = "loop"
    /\ UNCHANGED <<chunk_size, overlap, query_vars, retry_vars, handler_vars, shutdown_vars, alert_vars>>

\* one iteration of the while loop
ChunkLoop ==
    /\ chunker_pc = "loop"
    /\ start < Len(text)
    /\ chunks' = Append(chunks, MakeChunk(ChunkText(start), chunk_index))
    /\ starts' = Append(starts, start)
    /\ start' = start + Advance(ChunkText(start))
    /\ chunk_index' = chunk_index + 1
    /\ UNCHANGED <<chunker_pc, chunk_size, overlap, text, query_vars, retry_vars, handler_vars, shutdown_vars, alert_vars>>

\* the loop condition fails: return chunks
ChunkReturn ==
    /\ chunker_pc = "loop"
    /\ ~(start < Len(text))
    /\ chunker_pc' = "done"
    /\ UNCHANGED <<chunk_size, overlap, text, start, chunk_index, chunks, starts, query_vars, retry_vars, handler_vars, shutdown_vars, alert_vars>>

\* the characters of the documents cut at all four kinds of sentence ending
SplitAlphabet == {"a", ".", "?", "!", " ", "\n"}

\* the documents one character longer than chunk_size: their first window is
\* not the final one
SplitDocuments(cs) == [1..(cs + 1) -> SplitAlphabet]

\* chunk_document has entered its loop on a document of SplitDocuments
InitSplit ==
    /\ chunker_pc = "loop"
    /\ chunk_size \in 1..MaxChunkSize
    /\ overlap \in 0..(chunk_size - 1)
    /\ text \in SplitDocuments(chunk_size)
    /\ start = 0
    /\ chunk_index = 0
    /\ chunks = <<>>
    /\ starts = <<>>
    /\ NoQueryEngine
    /\ NoLLMClient
    /\ NoRequestHandler
    /\ NoShutdownHandler
    /\ NoAlertManager

NextChunker ==
    \/ Construct
    \/ ChunkSmallDocument
    \/ ChunkDocument
    \/ ChunkLoop
    \/ ChunkReturn

SpecChunker == InitChunker /\ [][NextChunker]_vars

NextSplit ==
    \/ ChunkLoop
    \/ ChunkReturn

SpecSplit == InitSplit /\ [][NextSplit]_vars

-----------------------------------------------------------------------------
(* Chunker claims *)

\* the end offset of the k-th chunk emitted
ChunkEnd(k) == starts[k] + Len(chunks[k].text)

\* the number of characters the k-th chunk shares with the one before it
Shared(k) == ChunkEnd(k - 1) - starts[k]

\* the furthest end offset reached by the chunks 1..k
RECURSIVE Covered(_)
Covered(k) == IF k = 0 THEN 0 ELSE Max(Covered(k - 1), ChunkEnd(k))

\* the k-th chunk without the characters the chunks before it already gave
Fresh(k) ==
    IF ChunkEnd(k) <= Covered(k - 1) THEN <<>>
    ELSE SubSeq(chunks[k].text, Covered(k - 1) - starts[k] + 1, Len(chunks[k].text))

\* the chunks 1..k joined in index order with the overlaps removed
RECURSIVE Reassemble(_)
Reassemble(k) == IF k = 0 THEN <<>> ELSE Reassemble(k - 1) \o Fresh(k)

ChunkedLong == chunker_pc = "done" /\ Len(text) > chunk_size

\* C2: for a document longer than chunk_size the returned chunks cover the
\* content with no gap: every chunk is the substring of content at the offset
\* it was cut at, the first starts at 0, each later one starts no later than
\* the end of its predecessor, some chunk ends at len(content), consecutive
\* chunks share at most overlap characters (and no chunk repeats more than
\* overlap characters of what was emitted before it), and joining the chunks
\* in index order, each without the characters already emitted, gives
\* content back exactly.
C2_Coverage ==
    ChunkedLong =>
        /\ Len(chunks) >= 1
        /\ \A k \in 1..Len(chunks) :
              chunks[k].text = Slice(text, starts[k], ChunkEnd(k))
        /\ starts[1] = 0
        /\ \A k \in 2..Len(chunks) :
              /\ starts[k] <= ChunkEnd(k - 1)
              /\ Shared(k) >= 0
              /\ Shared(k) <= overlap
              /\ Covered(k - 1) - starts[k] <= overlap
        /\ \E k \in 1..Len(chunks) : ChunkEnd(k) = Len(text)
        /\ Reassemble(Len(chunks)) = text

\* a document cut at a sentence end whose trailing whitespace was dropped,
\* with chunks that overlap
C2_Witness ==
    /\ ChunkedLong
    /\ Len(chunks) >= 3
    /\ overlap >= 1
    /\ \E k \in 2..Len(chunks) : Shared(k) = overlap
    /\ Len(chunks[1].text) < chunk_size
    /\ IsSpace(text[ChunkEnd(1) + 1])

\* the stretch [i, j) of text is a sentence: it begins at the start of the
\* text or right after a sentence ending, ends at the end of the text or right
\* after a sentence ending, and has no sentence ending inside
IsSentence(i, j) ==
    /\ 0 <= i /\ i < j /\ j <= Len(text)
    /\ i = 0 \/ i \in MatchEnds(text)
    /\ j = Len(text) \/ j \in MatchEnds(text)
    /\ \A p \in MatchEnds(text) : ~(i < p /\ p < j)

\* C3 (as amended): every chunk chunk_document emits is at most chunk_size
\* characters long, with no exception: a sentence longer than chunk_size is
\* cut at the window boundary.
C3_ChunkBound ==
    \A k \in 1..Len(chunks) : Len(chunks[k].text) <= chunk_size

\* a sentence longer than chunk_size was cut at the full window
C3_Witness ==
    /\ ChunkedLong
    /\ \E i \in 0..Len(text), j \in 0..Len(text) :
          /\ IsSentence(i, j)
          /\ j - i > chunk_size
          /\ \E k \in 1..Len(chunks) :
                /\ starts[k] = i
                /\ Len(chunks[k].text) = chunk_size

\* C3 (as stated): a chunk is longer than chunk_size only when it is a whole
\* sentence, and a sentence longer than chunk_size is emitted whole as one
\* chunk.
C3_SentenceEmittedWhole ==
    chunker_pc = "done" =>
        \A i \in 0..Len(text), j \in 0..Len(text) :
            (IsSentence(i, j) /\ j - i > chunk_size) =>
                \E k \in 1..Len(chunks) :
                    starts[k] <= i /\ ChunkEnd(k) >= j

\* C4: chunk_document terminates for every document and every valid
\* (chunk_size, overlap), overlap = chunk_size - 1 included: each loop
\* iteration moves start forward by max(1, len(emitted chunk) - overlap) >= 1,
\* so the loop has made at most start <= len(content) + chunk_size iterations;
\* with start >= len(content) the only step left is the return.
C4_Terminates ==
    /\ [][ChunkLoop =>
            /\ start' > start
            /\ start' = start + Max(1, Len(chunks'[Len(chunks')].text) - overlap)]_vars
    /\ [][(chunker_pc = "loop" /\ start >= Len(text)) => chunker_pc' = "done"]_vars
    /\ [](chunker_pc = "loop" =>
            /\ Len(chunks) <= start
            /\ start < Len(text) + chunk_size)

\* a finished run with overlap = chunk_size - 1 in which a chunk was no longer
\* than the overlap, so that only the floor of 1 moved the window
C4_Witness ==
    /\ ChunkedLong
    /\ overlap = chunk_size - 1
    /\ overlap >= 1
    /\ \E k \in 1..Len(chunks) : Len(chunks[k].text) <= overlap

\* C13: the chunk_index values of the chunks chunk_document emits are 0, 1,
\* 2, ... in emission order, with no gap and no repeat, and every chunk's
\* document_id is the document's file_path; this holds after every emission,
\* so also for the list returned.
C13_ChunkIndexing ==
    /\ \A k \in 1..Len(chunks) :
          /\ chunks[k].chunk_index = k - 1
          /\ chunks[k].document_id = DocPath
    /\ chunker_pc = "loop" => chunk_index = Len(chunks)

\* a document returned in three or more chunks
C13_Witness ==
    /\ ChunkedLong
    /\ Len(chunks) >= 3
    /\ chunks[Len(chunks)].chunk_index = Len(chunks) - 1

ChunkedSmall == chunker_pc = "done" /\ Len(text) <= chunk_size

\* C14: if len(document.content) <= chunk_size, empty content included,
\* chunk_document returns exactly one chunk, whose text is the whole content
\* unchanged (not cut at a sentence boundary, not stripped) and whose
\* chunk_index is 0; such a document never enters the loop.
C14_SmallDocument ==
    /\ ChunkedSmall =>
          /\ Len(chunks) = 1
          /\ chunks[1].text = text
          /\ chunks[1].chunk_index = 0
    /\ chunker_pc = "loop" => Len(text) > chunk_size

\* a small document that ends in whitespace after a sentence end, which the
\* boundary search of the loop would have cut and stripped
C14_Witness ==
    /\ ChunkedSmall
    /\ Len(text) >= 2
    /\ SplitOnSentences(text) # text
    /\ chunks[1].text = text

\* C15: constructing a TextChunker fails with a configuration error exactly
\* when chunk_size <= 0, overlap < 0 or overlap >= chunk_size; every other
\* pair is accepted, and the constructor leaves the values it was given as
\* they are, it corrects none.
C15_ConfigValidation ==
    /\ [](chunker_pc # "new" =>
            (chunker_pc = "config_error"
                <=> (chunk_size <= 0 \/ overlap < 0 \/ overlap >= chunk_size)))
    /\ [](chunker_pc = "config_error" => chunks = <<>>)
    /\ [][Construct => (chunk_size' = chunk_size /\ overlap' = overlap)]_vars

\* an overlap equal to a positive chunk_size is refused
C15_Witness ==
    /\ chunker_pc = "config_error"
    /\ chunk_size >= 1
    /\ overlap = chunk_size

-----------------------------------------------------------------------------
(* QueryEngine: intent detection *)

UpperCase == <<"A", "B", "C", "D", "E", "F", "G", "H", "I", "J", "K", "L", "M", "N", "O", "P", "Q", "R", "S", "T", "U", "V", "W", "X", "Y", "Z">>
LowerCase == <<"a", "b", "c", "d", "e", "f", "g", "h", "i", "j", "k", "l", "m", "n", "o", "p", "q", "r", "s", "t", "u", "v", "w", "x", "y", "z">>

\* one character of str.lower()
LowerChar(c) ==
    IF \E i \in 1..Len(UpperCase) : UpperCase[i] = c
    THEN LowerCase[CHOOSE i \in 1..Len(UpperCase) : UpperCase[i] = c]
    ELSE c

\* s.lower()
Lower(s) == [i \in 1..Len(s) |-> LowerChar(s[i])]

\* sub in s
Contains(s, sub) ==
    \E i \in 0..(Len(s) - Len(sub)) : SubSeq(s, i + 1, i + Len(sub)) = sub

Str_hi == <<"h", "i">>
Str_hello == <<"h", "e", "l", "l", "o">>
Str_hey == <<"h", "e", "y">>
Str_hey_there == <<"h", "e", "y", " ", "t", "h", "e", "r", "e">>
Str_who_are_you == <<"w", "h", "o", " ", "a", "r", "e", " ", "y", "o", "u">>
Str_what_are_you == <<"w", "h", "a", "t", " ", "a", "r", "e", " ", "y", "o", "u">>
Str_how_does_vista_work == <<"h", "o", "w", " ", "d", "o", "e", "s", " ", "v", "i", "s", "t", "a", " ", "w", "o", "r", "k">>
Str_how_do_you_work == <<"h", "o", "w", " ", "d", "o", " ", "y", "o", "u", " ", "w", "o", "r", "k">>

\* the pieces questions are put together from
Pieces ==
    { Str_hi,
      <<"H", "e", "l", "l", "o">>,
      Str_hey,
      <<" ", "t", "h", "e", "r", "e">>,
      Str_who_are_you,
      <<"W", "h", "a", "t", " ", "a", "r", "e", " ", "Y", "O", "U">>,
      <<"H", "o", "w", " ", "d", "o", "e", "s", " ", "V", "i", "s", "t", "a", " ", "w", "o", "r", "k">>,
      Str_how_do_you_work,
      <<" ">>,
      <<"?">>,
      <<"x">> }

\* every concatenation of at most n pieces
RECURSIVE Concats(_)
Concats(n) ==
    IF n = 0 THEN {<<>>}
    ELSE Concats(n - 1) \cup {q \o piece : q \in Concats(n - 1), piece \in Pieces}

Questions == Concats(MaxPieces)

\* the set literal of the GREETING test
GreetingTokens == {Str_hi, Str_hello, Str_hey, Str_hey_there}

\* mutant: the META rule is tried before the IDENTITY rule
DetectIntent_MetaFirst(q) ==
    LET lq == Strip(Lower(q)) IN
    IF lq \in GreetingTokens THEN "GREETING"
    ELSE IF Contains(lq, Str_how_does_vista_work) \/ Contains(lq, Str_how_do_you_work)
    THEN "META"
    ELSE IF Contains(lq, Str_who_are_you) \/ Contains(lq, Str_what_are_you)
    THEN "IDENTITY"
    ELSE "KNOWLEDGE"

\* QueryEngine._detect_intent
DetectIntent(q) ==
    LET lq == Strip(Lower(q)) IN
    IF lq \in GreetingTokens THEN "GREETING"
    ELSE IF Contains(lq, Str_who_are_you) \/ Contains(lq, Str_what_are_you)
    THEN "IDENTITY"
    ELSE IF Contains(lq, Str_how_does_vista_work) \/ Contains(lq, Str_how_do_you_work)
    THEN "META"
    ELSE "KNOWLEDGE"

-----------------------------------------------------------------------------
(* QueryEngine: context size control *)

\* the tokens kept back for the prompt scaffolding
ReservedTokens == 500
\* characters per token
CharsPerToken == 4
\* characters of formatting counted per chunk
ChunkOverhead == 100

Ellipsis == <<".", ".", ".">>

\* available_chars
AvailableChars(mct) == (mct - ReservedTokens) * CharsPerToken

\* chunk_chars
ChunkChars(chunk) == Len(chunk.text) + ChunkOverhead

\* mutant: a chunk that does not fit is skipped and the walk goes on
RECURSIVE LimitLoop_Continue(_, _, _, _, _)
LimitLoop_Continue(chs, i, current_chars, acc, available) ==
    IF i > Len(chs) THEN acc
    ELSE IF current_chars + ChunkChars(chs[i]) <= available
    THEN LimitLoop_Continue(chs, i + 1, current_chars + ChunkChars(chs[i]),
                            Append(acc, chs[i]), available)
    ELSE LimitLoop_Continue(chs, i + 1, current_chars, acc, available)

\* the for loop from its i-th chunk on: limited_chunks when it ends
RECURSIVE LimitLoop(_, _, _, _, _)
LimitLoop(chs, i, current_chars, acc, available) ==
    IF i > Len(chs) THEN acc
    ELSE IF current_chars + ChunkChars(chs[i]) <= available
    THEN LimitLoop(chs, i + 1, current_chars + ChunkChars(chs[i]),
                   Append(acc, chs[i]), available)
    ELSE acc

\* mutant: the ellipsis marker is left out
TruncatedText_NoEllipsis(t, max_chunk_chars) ==
    IF Len(t) > max_chunk_chars THEN SliceTo(t, max_chunk_chars) ELSE t

\* truncated_text
TruncatedText(t, max_chunk_chars) ==
    IF Len(t) > max_chunk_chars THEN SliceTo(t, max_chunk_chars) \o Ellipsis ELSE t

\* the RetrievedChunk built from first_chunk
TruncatedChunk(first_chunk, available) ==
    [text |-> TruncatedText(first_chunk.text, available - ChunkOverhead),
     metadata |-> first_chunk.metadata,
     similarity_score |-> first_chunk.similarity_score]

\* mutant: when not even the first chunk fits, the input is returned as it is
LimitContextSize_AllWhenNoneFits(chs, mct) ==
    IF chs = <<>> THEN chs
    ELSE LET available == AvailableChars(mct)
             limited == LimitLoop(chs, 1, 0, <<>>, available)
         IN IF limited = <<>> THEN chs
            ELSE limited

\* QueryEngine._limit_context_size
LimitContextSize(chs, mct) ==
    IF chs = <<>> THEN chs
    ELSE LET available == AvailableChars(mct)
             limited == LimitLoop(chs, 1, 0, <<>>, available)
         IN IF limited = <<>> THEN <<TruncatedChunk(chs[1], available)>>
            ELSE limited

\* a text of n characters, all different
Letters == <<"a", "b", "c", "d", "e", "f", "g", "h", "i", "j">>
TextOfLen(n) == SubSeq(Letters, 1, n)

FileNames == <<"one.txt", "two.txt", "three.txt", "four.txt", "five.txt">>

\* similarity scores in hundredths, descending with the rank
RankScore(k) == 100 - 10 * k

\* the chunk lists _limit_context_size is applied to: the k-th chunk has a
\* text of lens[k] characters, its own filename and the score of its rank
ChunkList(lens) ==
    [k \in 1..Len(lens) |->
        [text |-> TextOfLen(lens[k]),
         metadata |-> {<<"category", "experience">>, <<"filename", FileNames[k]>>},
         similarity_score |-> RankScore(k)]]

ChunkLists ==
    {ChunkList(lens) : lens \in UNION {[1..n -> 0..MaxTextLen] : n \in 1..MaxChunks}}

\* the values of max_context_tokens tried: budgets of less than one chunk's
\* overhead (1, 500, 524), of exactly the overhead (525) and of one, two and
\* three chunks (526, 551, 552, 577)
ContextTokenValues == {1, 500, 524, 525, 526, 551, 552, 577}

InitLimit ==
    /\ NoChunker
    /\ NoLLMClient
    /\ NoRequestHandler
    /\ NoShutdownHandler
    /\ NoAlertManager
    /\ query_pc = "limit_call"
    /\ max_context_tokens \in ContextTokenValues
    /\ retrieved_chunks \in ChunkLists
    /\ question = <<>>
    /\ intent = "unset"
    /\ limited_chunks = <<>>
    /\ prompt = <<>>
    /\ response = NoResponse
    /\ calls = <<>>
    /\ failed = "none"
    /\ served = <<>>

\* mutant: the list is cut down in place
ChunksAfterLimit_InPlace(cs, mct) == LimitContextSize(cs, mct)

\* the list handed to _limit_context_size, after the call: the chunks are
\* appended to a new list and a truncated chunk is a new RetrievedChunk, so
\* the argument and its chunks are as before
ChunksAfterLimit(cs, mct) == cs

\* one call of _limit_context_size
LimitContext ==
    /\ query_pc = "limit_call"
    /\ limited_chunks' = LimitContextSize(retrieved_chunks, max_context_tokens)
    /\ retrieved_chunks' = ChunksAfterLimit(retrieved_chunks, max_context_tokens)
    /\ query_pc' = "limit_done"
    /\ UNCHANGED <<max_context_tokens, question, intent, prompt,
                   response, calls, failed, served, chunker_vars, retry_vars, handler_vars, shutdown_vars, alert_vars>>

NextLimit == LimitContext

SpecLimit == InitLimit /\ [][NextLimit]_vars

-----------------------------------------------------------------------------
(* QueryEngine: prompt construction *)

\* one block of a prompt: a static template, an instruction, the question or a
\* numbered context block with its source attribution and its chunk text
Seg(tag, n, source, body) == [tag |-> tag, n |-> n, source |-> source, body |-> body]
Static(tag) == Seg(tag, 0, "", <<>>)

\* chunk.metadata.get(key, "unknown")
MetaGet(metadata, key) ==
    IF \E kv \in metadata : kv[1] = key
    THEN (CHOOSE kv \in metadata : kv[1] = key)[2]
    ELSE "unknown"

\* source_info of a chunk: empty for empty metadata
SourceInfo(chunk) ==
    IF chunk.metadata # {}
    THEN <<MetaGet(chunk.metadata, "category"), MetaGet(chunk.metadata, "filename")>>
    ELSE ""

\* QueryEngine._construct_direct_prompt
ConstructDirectPrompt(q, it) ==
    <<Static("system_prompt"), Static("identity_prompt")>>
    \o (IF it = "META" THEN <<Static("meta_prompt")>> ELSE <<>>)
    \o <<Seg("user_question", 0, "", q), Static("answer")>>

\* mutant: the instruction to admit the lack of information is missing
ConstructNoContextPrompt_NoInstruction(q) ==
    <<Static("system_prompt"), Static("identity_prompt"),
      Seg("question", 0, "", q), Static("answer")>>

\* QueryEngine._construct_no_context_prompt
ConstructNoContextPrompt(q) ==
    <<Static("system_prompt"), Static("identity_prompt"),
      Static("no_information_instruction"),
      Seg("question", 0, "", q), Static("answer")>>

\* mutant: the prompt embeds the retrieval result, not the budgeted chunks
ConstructRagPrompt_Unfiltered(q, context_chunks) ==
    <<Static("system_prompt"), Static("identity_prompt"),
      Static("context_only_instruction"), Seg("question", 0, "", q)>>
    \o [i \in 1..Len(retrieved_chunks) |->
          Seg("context", i, SourceInfo(retrieved_chunks[i]), retrieved_chunks[i].text)]
    \o <<Static("answer")>>

\* QueryEngine._construct_rag_prompt
ConstructRagPrompt(q, context_chunks) ==
    <<Static("system_prompt"), Static("identity_prompt"),
      Static("context_only_instruction"),
      Seg("question", 0, "", q)>>
    \o [i \in 1..Len(context_chunks) |->
          Seg("context", i, SourceInfo(context_chunks[i]), context_chunks[i].text)]
    \o <<Static("answer")>>

-----------------------------------------------------------------------------
(* QueryEngine.query *)

\* n_results when the caller gives none
DefaultNResults == 5

InternalErrorAnswer ==
    Message("I ran into an internal error while answering this question.")

\* what the embedding provider returns for a text
EmbeddingOf(t) == [embedding_of |-> t]

\* what the LLM generator returns for a prompt
GenerationFor(p) == [text |-> "generated", generated_for |-> p]

\* the chunks the vector index may return to query(): short or long texts,
\* without or with metadata, scored by rank
IndexChunk(opt, k) ==
    [text |-> IF opt = 1 THEN TextOfLen(1) ELSE TextOfLen(MaxTextLen),
     metadata |-> IF opt = 1 THEN {}
                  ELSE {<<"category", "experience">>, <<"filename", FileNames[k]>>},
     similarity_score |-> RankScore(k)]

IndexResults ==
    UNION {{[k \in 1..n |-> IndexChunk(opts[k], k)] : opts \in [1..n -> {1, 2}]} :
              n \in 0..MaxRetrieved}

\* the values of max_context_tokens a QueryEngine is constructed with: a
\* budget of no chunk, of one short chunk, and of two chunks
EngineTokenValues == {500, 526, 552}

\* mutant: the vector index is queried outside the try block
InTryBlock_IndexOutside(step) == step # "index"

\* the steps of query() the try block covers: all of them
InTryBlock(step) == TRUE

\* mutant: the failed step is tried again
Raise_Retry(step, who) ==
    /\ failed' = who
    /\ response' = response
    /\ query_pc' = step

\* a collaborator raised at step: the except clause returns the internal-error
\* response, and outside the try block the exception reaches the caller
Raise(step, who) ==
    /\ failed' = who
    /\ IF InTryBlock(step)
       THEN /\ response' = QueryResponse(InternalErrorAnswer, <<>>, question)
            /\ query_pc' = "returned"
       ELSE /\ response' = response
            /\ query_pc' = "raised"

\* mutant: META questions take the retrieval path
IsDirectIntent_NoMeta(it) == it \in {"GREETING", "IDENTITY"}

\* the intents answered without retrieval
IsDirectIntent(it) == it \in {"GREETING", "IDENTITY", "META"}

InitQuery ==
    /\ NoChunker
    /\ NoLLMClient
    /\ NoRequestHandler
    /\ NoShutdownHandler
    /\ NoAlertManager
    /\ query_pc = "idle"
    /\ max_context_tokens \in EngineTokenValues
    /\ QueryLocalsUnset
    /\ served = <<>>

\* query(question) is called
Query ==
    /\ query_pc = "idle"
    /\ \E q \in Questions : question' = q
    /\ query_pc' = "detect"
    /\ UNCHANGED <<max_context_tokens, intent, retrieved_chunks, limited_chunks,
                   prompt, response, calls, failed, served, chunker_vars, retry_vars, handler_vars, shutdown_vars, alert_vars>>

\* intent = self._detect_intent(question) and the branch on it
Detect ==
    /\ query_pc = "detect"
    /\ intent' = DetectIntent(question)
    /\ query_pc' = IF IsDirectIntent(intent') THEN "direct" ELSE "embed"
    /\ UNCHANGED <<max_context_tokens, question, retrieved_chunks, limited_chunks,
                   prompt, response, calls, failed, served, chunker_vars, retry_vars, handler_vars, shutdown_vars, alert_vars>>

\* the non-RAG path: direct prompt, one generation
DirectGenerate ==
    /\ query_pc = "direct"
    /\ prompt' = ConstructDirectPrompt(question, intent)
    /\ calls' = Append(calls, [to |-> "llm", arg |-> prompt'])
    /\ \E ok \in BOOLEAN :
          IF ok
          THEN /\ response' = QueryResponse(GenerationFor(prompt'), <<>>, question)
               /\ query_pc' = "returned"
               /\ failed' = failed
          ELSE Raise("direct", "llm")
    /\ UNCHANGED <<max_context_tokens, question, intent, retrieved_chunks,
                   limited_chunks, served, chunker_vars, retry_vars, handler_vars, shutdown_vars, alert_vars>>

\* query_embedding = self.embedding_gen.generate_embedding(question)
Embed ==
    /\ query_pc = "embed"
    /\ calls' = Append(calls, [to |-> "embed", arg |-> question])
    /\ \E ok \in BOOLEAN :
          IF ok
          THEN /\ query_pc' = "index"
               /\ UNCHANGED <<response, failed>>
          ELSE Raise("embed", "embed")
    /\ UNCHANGED <<max_context_tokens, question, intent, retrieved_chunks,
                   limited_chunks, prompt, served, chunker_vars, retry_vars, handler_vars, shutdown_vars, alert_vars>>

\* retrieved_chunks = self.vector_store.query(query_embedding, n_results)
IndexQuery ==
    /\ query_pc = "index"
    /\ calls' = Append(calls, [to |-> "index",
                               arg |-> <<EmbeddingOf(question), DefaultNResults>>])
    /\ \/ \E result \in IndexResults :
             /\ retrieved_chunks' = result
             /\ query_pc' = IF result = <<>> THEN "no_context" ELSE "rag"
             /\ UNCHANGED <<response, failed>>
       \/ /\ Raise("index", "index")
          /\ UNCHANGED retrieved_chunks
    /\ UNCHANGED <<max_context_tokens, question, intent, limited_chunks, prompt,
                   served, chunker_vars, retry_vars, handler_vars, shutdown_vars, alert_vars>>

\* nothing retrieved: no-context prompt, one generation
NoContextGenerate ==
    /\ query_pc = "no_context"
    /\ prompt' = ConstructNoContextPrompt(question)
    /\ calls' = Append(calls, [to |-> "llm", arg |-> prompt'])
    /\ \E ok \in BOOLEAN :
          IF ok
          THEN /\ response' = QueryResponse(GenerationFor(prompt'), <<>>, question)
               /\ query_pc' = "returned"
               /\ failed' = failed
          ELSE Raise("no_context", "llm")
    /\ UNCHANGED <<max_context_tokens, question, intent, retrieved_chunks,
                   limited_chunks, served, chunker_vars, retry_vars, handler_vars, shutdown_vars, alert_vars>>

\* chunks retrieved: budget them, RAG prompt, one generation
RagGenerate ==
    /\ query_pc = "rag"
    /\ limited_chunks' = LimitContextSize(retrieved_chunks, max_context_tokens)
    /\ retrieved_chunks' = ChunksAfterLimit(retrieved_chunks, max_context_tokens)
    /\ prompt' = ConstructRagPrompt(question, limited_chunks')
    /\ calls' = Append(calls, [to |-> "llm", arg |-> prompt'])
    /\ \E ok \in BOOLEAN :
          IF ok
          THEN /\ response' = QueryResponse(GenerationFor(prompt'), limited_chunks',
                                            question)
               /\ query_pc' = "returned"
               /\ failed' = failed
          ELSE Raise("rag", "llm")
    /\ UNCHANGED <<max_context_tokens, question, intent,
                   served, chunker_vars, retry_vars, handler_vars, shutdown_vars, alert_vars>>

NextQuery ==
    \/ Query
    \/ Detect
    \/ DirectGenerate
    \/ Embed
    \/ IndexQuery
    \/ NoContextGenerate
    \/ RagGenerate

SpecQuery == InitQuery /\ [][NextQuery]_vars

\* one finished query() call: the question, what the collaborators
\* answered, and the response
ServedCall(q, who_failed, retrieved, resp) ==
    [question |-> q, failed |-> who_failed, retrieved |-> retrieved, response |-> resp]

\* query() has returned to its caller: its local variables are gone, and
\* the engine is ready for the next call
QueryReturn ==
    /\ query_pc = "returned"
    /\ served' = Append(served, ServedCall(question, failed, retrieved_chunks, response))
    /\ query_pc' = "idle"
    /\ question' = <<>>
    /\ intent' = "unset"
    /\ retrieved_chunks' = <<>>
    /\ limited_chunks' = <<>>
    /\ prompt' = <<>>
    /\ response' = NoResponse
    /\ calls' = <<>>
    /\ failed' = "none"
    /\ UNCHANGED <<max_context_tokens, chunker_vars, retry_vars, handler_vars,
                   shutdown_vars, alert_vars>>

\* the questions asked of an engine that serves several calls: a greeting,
\* an identity question and a knowledge question
CallQuestions == {Str_hi, Str_who_are_you, <<"x">>}

\* what the vector index answers to those calls: nothing, or one chunk
CallIndexResults == {r \in IndexResults : Len(r) <= 1}

\* at most MaxCalls query() calls, one after the other, on one engine
NextCalls ==
    \/ Len(served) < MaxCalls /\ Query /\ question' \in CallQuestions
    \/ Len(served) < MaxCalls /\ Detect
    \/ Len(served) < MaxCalls /\ DirectGenerate
    \/ Len(served) < MaxCalls /\ Embed
    \/ Len(served) < MaxCalls /\ IndexQuery /\ retrieved_chunks' \in CallIndexResults
    \/ Len(served) < MaxCalls /\ NoContextGenerate
    \/ Len(served) < MaxCalls /\ RagGenerate
    \/ QueryReturn

SpecCalls == InitQuery /\ [][NextCalls]_vars

-----------------------------------------------------------------------------
(* Context size claims *)

\* the characters the first k chunks of chs count for
RECURSIVE RunningTotal(_, _)
RunningTotal(chs, k) ==
    IF k = 0 THEN 0 ELSE RunningTotal(chs, k - 1) + ChunkChars(chs[k])

Limited == query_pc = "limit_done"

\* the first chunk alone fits the budget
FirstFits ==
    ChunkChars(retrieved_chunks[1]) <= AvailableChars(max_context_tokens)

\* C5: for every positive max_context_tokens and every non-empty list of
\* chunks, the chunks _limit_context_size returns fit the budget: their
\* len(text) + 100 sum to at most (max_context_tokens - 500) * 4, also when
\* the first chunk was truncated. (Stated for the budgets that leave room for
\* a chunk at all, that is for at least its 100 characters of overhead: below
\* that no non-empty result can fit.)
C5_FitsBudget ==
    (Limited /\ AvailableChars(max_context_tokens) >= ChunkOverhead) =>
        RunningTotal(limited_chunks, Len(limited_chunks))
            <= AvailableChars(max_context_tokens)

\* the number of chunks of the longest prefix whose running total stays
\* within the budget
LongestPrefix(chs, available) ==
    CHOOSE n \in 0..Len(chs) :
        /\ \A k \in 1..n : RunningTotal(chs, k) <= available
        /\ n < Len(chs) => RunningTotal(chs, n + 1) > available

\* C6: whenever the first chunk fits, _limit_context_size returns exactly the
\* longest prefix of its input whose running total of len(text) + 100 stays
\* within (max_context_tokens - 500) * 4, in input order: the walk stops at
\* the first chunk that would exceed the budget and no later chunk is
\* included, even one that would fit on its own.
C6_LongestPrefix ==
    (Limited /\ FirstFits) =>
        /\ limited_chunks =
              SubSeq(retrieved_chunks, 1,
                     LongestPrefix(retrieved_chunks, AvailableChars(max_context_tokens)))
        /\ Len(limited_chunks) >= 1

\* the walk stopped at the second chunk although the third would have fitted
C6_Witness ==
    /\ Limited
    /\ FirstFits
    /\ Len(retrieved_chunks) = 3
    /\ Len(limited_chunks) = 1
    /\ RunningTotal(retrieved_chunks, 1) + ChunkChars(retrieved_chunks[3])
          <= AvailableChars(max_context_tokens)

\* C7: if the first chunk alone exceeds the budget, _limit_context_size
\* returns exactly one chunk: a prefix of the first chunk's text followed by
\* the marker '...', with the first chunk's metadata and similarity_score;
\* for a non-empty input the result is never empty.
C7_TruncatedFirst ==
    Limited =>
        /\ Len(limited_chunks) >= 1
        /\ ~FirstFits =>
              /\ Len(limited_chunks) = 1
              /\ \E n \in 0..Len(retrieved_chunks[1].text) :
                    limited_chunks[1].text =
                        SubSeq(retrieved_chunks[1].text, 1, n) \o Ellipsis
              /\ limited_chunks[1].metadata = retrieved_chunks[1].metadata
              /\ limited_chunks[1].similarity_score =
                    retrieved_chunks[1].similarity_score

\* a first chunk cut to a shorter, non-empty prefix, with more chunks behind it
C7_Witness ==
    /\ Limited
    /\ ~FirstFits
    /\ Len(retrieved_chunks) >= 2
    /\ Len(limited_chunks) = 1
    /\ Len(limited_chunks[1].text) > Len(Ellipsis)
    /\ Len(limited_chunks[1].text) < Len(retrieved_chunks[1].text) + Len(Ellipsis)

\* C12: for a fixed list of chunks, a larger max_context_tokens never makes
\* _limit_context_size return fewer chunks, also from a budget under which the
\* first chunk is truncated to one under which a prefix is returned.
C12_Monotone ==
    Limited =>
        \A m \in ContextTokenValues :
            m >= max_context_tokens =>
                Len(LimitContextSize(retrieved_chunks, m)) >= Len(limited_chunks)

\* the first chunk was truncated, and a larger budget returns two chunks or more
C12_Witness ==
    /\ Limited
    /\ ~FirstFits
    /\ Len(limited_chunks) = 1
    /\ \E m \in ContextTokenValues :
          /\ m > max_context_tokens
          /\ Len(LimitContextSize(retrieved_chunks, m)) >= 2

-----------------------------------------------------------------------------
(* Query claims *)

Returned == query_pc = "returned"

\* the collaborators called so far, in order
CallsTo == [k \in 1..Len(calls) |-> calls[k].to]

HasContextSection(p) == \E k \in 1..Len(p) : p[k].tag = "context"

\* C1: query() never raises to its caller: if the embedding provider, the
\* vector index or the LLM generator raises at any step of the direct or the
\* retrieval path, the call returns a QueryResponse whose answer is the
\* non-empty internal-error message, whose sources is empty and whose query is
\* the question.
C1_NeverRaises ==
    /\ query_pc # "raised"
    /\ failed # "none" =>
          /\ Returned
          /\ response.answer = InternalErrorAnswer
          /\ response.answer.text # ""
          /\ response.sources = <<>>
          /\ response.query = question

\* the LLM generator raised after chunks were retrieved and budgeted
C1_Witness ==
    /\ Returned
    /\ failed = "llm"
    /\ intent = "KNOWLEDGE"
    /\ Len(limited_chunks) >= 1
    /\ response.sources = <<>>

\* C8: when the detected intent is GREETING, IDENTITY or META, query() performs
\* no retrieval: neither the embedding provider nor the vector index is
\* called, the LLM generator is called exactly once, with the direct prompt,
\* which has no Context section, and the response's sources is empty.
C8_DirectPath ==
    (Returned /\ intent \in {"GREETING", "IDENTITY", "META"}) =>
        /\ CallsTo = <<"llm">>
        /\ calls[1].arg = ConstructDirectPrompt(question, intent)
        /\ ~HasContextSection(calls[1].arg)
        /\ \A k \in 1..Len(calls[1].arg) :
              calls[1].arg[k].tag \in {"system_prompt", "identity_prompt",
                                       "meta_prompt", "user_question", "answer"}
        /\ (\E k \in 1..Len(calls[1].arg) : calls[1].arg[k].tag = "meta_prompt")
              <=> intent = "META"
        /\ response.sources = <<>>
        /\ failed = "none" => response.answer = GenerationFor(calls[1].arg)

\* a META question answered on the direct path
C8_Witness ==
    /\ Returned
    /\ intent = "META"
    /\ failed = "none"
    /\ response.answer.text = "generated"

\* the vector index was queried and returned a result
IndexAnswered == Len(calls) >= 2 /\ failed # "index"

Normalized == Strip(Lower(question))

IsGreeting == Normalized \in {Str_hi, Str_hello, Str_hey, Str_hey_there}
HasIdentityPhrase ==
    Contains(Normalized, Str_who_are_you) \/ Contains(Normalized, Str_what_are_you)
HasMetaPhrase ==
    \/ Contains(Normalized, Str_how_does_vista_work)
    \/ Contains(Normalized, Str_how_do_you_work)

\* C10: _detect_intent classifies the lower-cased, trimmed question by ordered
\* rules: GREETING iff it equals 'hi', 'hello', 'hey' or 'hey there';
\* otherwise IDENTITY iff it contains 'who are you' or 'what are you';
\* otherwise META iff it contains 'how does vista work' or 'how do you work';
\* otherwise KNOWLEDGE. A question with an identity and a meta phrase is
\* IDENTITY, and the rules leave one intent for each question.
C10_IntentRules ==
    intent # "unset" =>
        /\ intent = "GREETING" <=> IsGreeting
        /\ intent = "IDENTITY" <=> (~IsGreeting /\ HasIdentityPhrase)
        /\ intent = "META" <=> (~IsGreeting /\ ~HasIdentityPhrase /\ HasMetaPhrase)
        /\ intent = "KNOWLEDGE" <=>
              (~IsGreeting /\ ~HasIdentityPhrase /\ ~HasMetaPhrase)
        /\ (HasIdentityPhrase /\ HasMetaPhrase) => intent = "IDENTITY"

\* a question with an identity and a meta phrase, in mixed case
C10_Witness ==
    /\ intent = "IDENTITY"
    /\ HasIdentityPhrase
    /\ HasMetaPhrase
    /\ Lower(question) # question

\* the Context blocks of a prompt, in the order they appear
ContextBlocks(p) == SelectSeq(p, LAMBDA s : s.tag = "context")

\* C11: on the retrieval path (KNOWLEDGE intent, non-empty retrieval, the LLM
\* generator answered) QueryResponse.sources is exactly the sequence of chunks
\* in the prompt sent to the LLM generator: the output of the context-size
\* budget, not the retrieval result, each chunk in its place as the block
\* Context i with its source attribution and its text, i = 1..n.
C11_SourcesArePromptChunks ==
    (Returned /\ intent = "KNOWLEDGE" /\ retrieved_chunks # <<>> /\ failed = "none") =>
        /\ CallsTo = <<"embed", "index", "llm">>
        /\ response.sources = LimitContextSize(retrieved_chunks, max_context_tokens)
        /\ Len(ContextBlocks(calls[3].arg)) = Len(response.sources)
        /\ \A i \in 1..Len(response.sources) :
              /\ ContextBlocks(calls[3].arg)[i].n = i
              /\ ContextBlocks(calls[3].arg)[i].body = response.sources[i].text
              /\ ContextBlocks(calls[3].arg)[i].source = SourceInfo(response.sources[i])
        /\ response.answer = GenerationFor(calls[3].arg)

\* two chunks retrieved, one of them left out by the budget
C11_Witness ==
    /\ Returned
    /\ intent = "KNOWLEDGE"
    /\ failed = "none"
    /\ Len(retrieved_chunks) = 2
    /\ Len(response.sources) = 1
    /\ Len(ContextBlocks(calls[3].arg)) = 1

-----------------------------------------------------------------------------
(* LLM clients: generate_response and _retry_with_backoff *)

\* max_retries of the retry generate_response asks for
DefaultMaxRetries == 3

\* what the provider answers to one API call: the number of choices
\* (candidates), whether the first one carries a text at all, and that text;
\* or the call raises
Reply(choices, has_text, content) ==
    [raised |-> FALSE, choices |-> choices, has_text |-> has_text, content |-> content]

ApiFailure == [raised |-> TRUE, choices |-> 0, has_text |-> FALSE, content |-> <<>>]

\* func is not an API call
NoReply == [raised |-> FALSE, choices |-> -1, has_text |-> FALSE, content |-> <<>>]

\* a completion, a completion padded with whitespace, a whitespace-only text,
\* an empty text, a missing text, no choice at all, an API error
ProviderReplies ==
    {Reply(1, TRUE, <<"o", "k">>),
     Reply(1, TRUE, <<" ", "o", "k", "\n">>),
     Reply(1, TRUE, <<" ">>),
     Reply(1, TRUE, <<>>),
     Reply(1, FALSE, <<>>),
     Reply(0, FALSE, <<>>),
     ApiFailure}

\* OpenAILLMClient.generate_response._make_api_call
OpenAIMakeApiCall(r) ==
    IF r.raised THEN Outcome("exception", <<>>, "APIError")
    ELSE IF r.choices > 0 /\ r.has_text /\ r.content # <<>>
    THEN Outcome("value", Strip(r.content), "")
    ELSE Outcome("exception", <<>>, "Empty response from OpenAI API")

\* GeminiLLMClient.generate_response._make_api_call: response.text is None
\* without a candidate or without a text part, and None has no strip()
GeminiMakeApiCall(r) ==
    IF r.raised THEN Outcome("exception", <<>>, "APIError")
    ELSE IF ~(r.choices > 0 /\ r.has_text)
    THEN Outcome("exception", <<>>, "AttributeError")
    ELSE Outcome("value", Strip(r.content), "")

MakeApiCall(c, r) == IF c = "openai" THEN OpenAIMakeApiCall(r) ELSE GeminiMakeApiCall(r)

\* what a func handed to _retry_with_backoff may do: return one of two
\* values, raise one of two exceptions, or raise a BaseException that is no
\* Exception
FuncOutcomes ==
    {Outcome("value", <<"o", "k">>, ""),
     Outcome("value", <<"n", "o">>, ""),
     Outcome("exception", <<>>, "First failure"),
     Outcome("exception", <<>>, "Always fails"),
     Outcome("base_exception", <<>>, "KeyboardInterrupt")}

\* one entry of the history: an invocation of func or a time.sleep
CallEvent(a, reply, outcome) ==
    [ev |-> "call", attempt |-> a, reply |-> reply, outcome |-> outcome, delay |-> 0]
SleepEvent(a, d) ==
    [ev |-> "sleep", attempt |-> a, reply |-> NoReply, outcome |-> NoOutcome, delay |-> d]

\* mutant: the loop gives up one attempt late
IsLastAttempt_OneLate(a, mr) == a = mr + 1

\* attempt == max_retries
IsLastAttempt(a, mr) == a = mr

\* mutant: the delay grows linearly
Delay_Linear(a) == 2 * a

\* delay = 2 ** attempt
Delay(a) == 2 ^ a

InitRetry ==
    /\ NoChunker
    /\ NoQueryEngine
    /\ NoRequestHandler
    /\ NoShutdownHandler
    /\ NoAlertManager
    /\ llm_pc = "idle"
    /\ client \in {"openai", "gemini"}
    /\ entry = "none"
    /\ max_retries = 0
    /\ attempt = 0
    /\ llm_log = <<>>
    /\ llm_result = NoOutcome

\* generate_response(prompt): _retry_with_backoff(_make_api_call, max_retries=3)
GenerateResponse ==
    /\ llm_pc = "idle"
    /\ entry' = "generate_response"
    /\ max_retries' = DefaultMaxRetries
    /\ attempt' = 0
    /\ llm_pc' = "attempt"
    /\ UNCHANGED <<client, llm_log, llm_result, chunker_vars, query_vars, handler_vars, shutdown_vars, alert_vars>>

\* _retry_with_backoff(func, max_retries) called with a func of the caller
RetryWithBackoff ==
    /\ llm_pc = "idle"
    /\ entry' = "_retry_with_backoff"
    /\ \E mr \in 0..MaxRetries : max_retries' = mr
    /\ attempt' = 0
    /\ llm_pc' = "attempt"
    /\ UNCHANGED <<client, llm_log, llm_result, chunker_vars, query_vars, handler_vars, shutdown_vars, alert_vars>>

\* the loop body once func() has given outcome: return its value, let a
\* BaseException pass, re-raise the exception of the last attempt, or go on
\* to the backoff
AfterCall(reply, outcome) ==
    /\ llm_log' = Append(llm_log, CallEvent(attempt, reply, outcome))
    /\ IF outcome.kind = "value"
       THEN /\ llm_result' = outcome
            /\ llm_pc' = "returned"
       ELSE IF outcome.kind = "base_exception" \/ IsLastAttempt(attempt, max_retries)
       THEN /\ llm_result' = outcome
            /\ llm_pc' = "raised"
       ELSE /\ llm_result' = llm_result
            /\ llm_pc' = "backoff"

\* one iteration of the for loop up to the sleep: try: return func()
Attempt ==
    /\ llm_pc = "attempt"
    /\ IF entry = "generate_response"
       THEN \E r \in ProviderReplies : AfterCall(r, MakeApiCall(client, r))
       ELSE \E o \in FuncOutcomes : AfterCall(NoReply, o)
    /\ UNCHANGED <<client, entry, max_retries, attempt, chunker_vars, query_vars,
                   handler_vars, shutdown_vars, alert_vars>>

\* time.sleep(2 ** attempt), then the next iteration
Backoff ==
    /\ llm_pc = "backoff"
    /\ llm_log' = Append(llm_log, SleepEvent(attempt, Delay(attempt)))
    /\ attempt' = attempt + 1
    /\ llm_pc' = "attempt"
    /\ UNCHANGED <<client, entry, max_retries, llm_result, chunker_vars, query_vars,
                   handler_vars, shutdown_vars, alert_vars>>

NextRetry ==
    \/ GenerateResponse
    \/ RetryWithBackoff
    \/ Attempt
    \/ Backoff

SpecRetry == InitRetry /\ [][NextRetry]_vars

-----------------------------------------------------------------------------
(* LLM client claims *)

\* the invocations of func so far, and the sleeps so far
CallsMade == SelectSeq(llm_log, LAMBDA e : e.ev = "call")
SleepsMade == SelectSeq(llm_log, LAMBDA e : e.ev = "sleep")

RECURSIVE TotalDelay(_)
TotalDelay(k) == IF k = 0 THEN 0 ELSE TotalDelay(k - 1) + SleepsMade[k].delay

\* the call is over
RetryOver == llm_pc \in {"returned", "raised"}

\* every one of the max_retries + 1 attempts raised an Exception
Exhausted ==
    /\ llm_pc = "raised"
    /\ Len(CallsMade) = max_retries + 1
    /\ \A k \in 1..Len(CallsMade) : CallsMade[k].outcome.kind = "exception"

\* C16: _retry_with_backoff(func, max_retries) invokes func at most
\* max_retries + 1 times, as attempts 0, 1, 2, ...; every invocation before
\* the last one raised an exception, so the value returned is the value of
\* the first successful invocation, after which func is not invoked again;
\* and when all max_retries + 1 invocations fail, the call raises the
\* exception of the last one.
C16_RetryBound ==
    /\ Len(CallsMade) <= max_retries + 1
    /\ \A k \in 1..Len(CallsMade) : CallsMade[k].attempt = k - 1
    /\ \A k \in 1..(Len(CallsMade) - 1) : CallsMade[k].outcome.kind = "exception"
    /\ llm_pc = "returned" =>
          /\ CallsMade[Len(CallsMade)].outcome.kind = "value"
          /\ llm_result = CallsMade[Len(CallsMade)].outcome
    /\ llm_pc = "raised" =>
          /\ CallsMade[Len(CallsMade)].outcome.kind # "value"
          /\ llm_result = CallsMade[Len(CallsMade)].outcome
          /\ llm_result.kind = "exception" => Len(CallsMade) = max_retries + 1
    /\ (/\ Len(CallsMade) = max_retries + 1
        /\ llm_pc # "idle"
        /\ CallsMade[Len(CallsMade)].outcome.kind # "value") => llm_pc = "raised"
    /\ (llm_log # <<>> /\ llm_log[Len(llm_log)].ev = "call"
           /\ llm_log[Len(llm_log)].outcome.kind = "value") => llm_pc = "returned"

\* three attempts or more all failed, the first and the last with different
\* exceptions, and the last one's was raised
C16_Witness ==
    /\ Exhausted
    /\ max_retries >= 2
    /\ CallsMade[1].outcome # CallsMade[Len(CallsMade)].outcome
    /\ llm_result = CallsMade[Len(CallsMade)].outcome

\* C17: after the failed attempt k (from 0) and before attempt k + 1 the
\* client sleeps once, for exactly 2^k seconds; it does not sleep after a
\* successful attempt nor after the last failed one, so a call that exhausts
\* max_retries has slept 2^max_retries - 1 seconds in all.
C17_BackoffDelays ==
    /\ \A i \in 1..Len(llm_log) :
          IF i % 2 = 1
          THEN /\ llm_log[i].ev = "call"
               /\ llm_log[i].attempt = (i - 1) \div 2
          ELSE /\ llm_log[i].ev = "sleep"
               /\ llm_log[i - 1].outcome.kind = "exception"
               /\ llm_log[i].attempt = llm_log[i - 1].attempt
               /\ llm_log[i].delay = 2 ^ llm_log[i].attempt
    /\ \A k \in 1..Len(SleepsMade) :
          SleepsMade[k].delay = IF k = 1 THEN 1 ELSE 2 * SleepsMade[k - 1].delay
    /\ RetryOver =>
          /\ llm_log[Len(llm_log)].ev = "call"
          /\ Len(SleepsMade) = Len(CallsMade) - 1
    /\ Exhausted => TotalDelay(Len(SleepsMade)) = 2 ^ max_retries - 1

\* a call that exhausted three retries or more: it slept 1 + 2 + 4 (+ ...)
C17_Witness ==
    /\ Exhausted
    /\ max_retries >= 3
    /\ Len(SleepsMade) = max_retries
    /\ TotalDelay(Len(SleepsMade)) >= 7

\* the provider answered with an empty completion: no choice, a missing text
\* or an empty text
IsEmptyCompletion(r) ==
    ~r.raised /\ r.choices >= 0 /\ (r.choices = 0 \/ ~r.has_text \/ r.content = <<>>)

\* C18: for both LLM clients, an API call the provider answers with an empty
\* completion (no choices, empty or missing text) fails with an error:
\* generate_response never returns a value made of such a completion, and
\* raises when every attempt was answered that way.
C18_EmptyCompletionFails ==
    entry = "generate_response" =>
        /\ \A k \in 1..Len(CallsMade) :
              IsEmptyCompletion(CallsMade[k].reply) =>
                  CallsMade[k].outcome.kind = "exception"
        /\ (llm_pc = "returned") => ~IsEmptyCompletion(CallsMade[Len(CallsMade)].reply)

-----------------------------------------------------------------------------
(* ConcurrentRequestHandler *)

Tasks == 1..NumTasks

\* the request_id each task passes: requests without an x-request-id header
\* share the id "unknown"
TaskRequestIds == <<"unknown", "unknown", "req-3", "req-4", "req-5", "req-6">>
RequestIdOf(t) == TaskRequestIds[t]

\* mutant: the queue takes one request more than maxsize
QueueFull_OffByOne(q, size) == Len(q) > size

\* asyncio.Queue(maxsize=config.queue_size).full(), which put_nowait tests
QueueFull(q, size) == Len(q) >= size

\* asyncio.Semaphore.locked(): no slot left, or somebody is already waiting
\* (a waiter stays in _waiters until it has resumed)
SemLocked == sem_value = 0 \/ sem_waiters # <<>>

\* the position in waiters of the first task whose future is not done, 0
\* if there is none
FirstWaiting(waiters, pcs) ==
    LET idx == {i \in 1..Len(waiters) : pcs[waiters[i]] = "waiting"}
    IN IF idx = {} THEN 0 ELSE CHOOSE i \in idx : \A j \in idx : i <= j

\* asyncio.Semaphore._wake_up_next(): the slot is handed to the first waiter
\* whose future is not done
WakeUpNext(value, waiters, pcs) ==
    IF FirstWaiting(waiters, pcs) = 0
    THEN [value |-> value, pcs |-> pcs]
    ELSE [value |-> value - 1,
          pcs |-> [pcs EXCEPT ![waiters[FirstWaiting(waiters, pcs)]] = "woken"]]

\* asyncio.Semaphore.release(), on leaving the async with block
Release(value, waiters, pcs) == WakeUpNext(value + 1, waiters, pcs)

\* waiters.remove(fut)
Without(waiters, t) == SelectSeq(waiters, LAMBDA u : u # t)

\* self.metrics.active_requests += 1
EnterRequest(m) == [m EXCEPT !.active_requests = @ + 1]

\* mutant: the finally clause does not count the request out
LeaveRequest_NoDecrement(m) == m

\* finally: self.metrics.active_requests -= 1
LeaveRequest(m) == [m EXCEPT !.active_requests = @ - 1]

InitHandler ==
    /\ NoChunker
    /\ NoQueryEngine
    /\ NoLLMClient
    /\ NoShutdownHandler
    /\ NoAlertManager
    /\ max_workers \in 1..MaxWorkers
    /\ queue_size \in 1..MaxQueueSize
    /\ request_queue = <<>>
    /\ sem_value = max_workers
    /\ sem_waiters = <<>>
    /\ task_pc = [t \in Tasks |-> "idle"]
    /\ active_ids = {}
    /\ metrics = NewMetrics
    /\ enqueue_calls = 0
    /\ enqueue_result = FALSE

\* enqueue_request(request_id, endpoint): the requests are numbered in the
\* order of the calls
EnqueueRequest ==
    /\ enqueue_calls < MaxEnqueues
    /\ enqueue_calls' = enqueue_calls + 1
    /\ IF QueueFull(request_queue, queue_size)
       THEN /\ metrics' = [metrics EXCEPT !.failed_requests = @ + 1]
            /\ enqueue_result' = FALSE
            /\ UNCHANGED request_queue
       ELSE /\ request_queue' = Append(request_queue, enqueue_calls')
            /\ metrics' = [metrics EXCEPT
                              !.queued_requests = @ + 1,
                              !.total_requests = @ + 1,
                              !.max_queue_depth = Max(@, Len(request_queue'))]
            /\ enqueue_result' = TRUE
    /\ UNCHANGED <<max_workers, queue_size, sem_value, sem_waiters, task_pc,
                   active_ids, chunker_vars, query_vars, retry_vars, shutdown_vars, alert_vars>>

\* dequeue_request(): the oldest request, None from an empty queue
DequeueRequest ==
    /\ IF request_queue = <<>>
       THEN UNCHANGED <<request_queue, metrics>>
       ELSE /\ request_queue' = Tail(request_queue)
            /\ metrics' = [metrics EXCEPT !.queued_requests = @ - 1]
    /\ UNCHANGED <<max_workers, queue_size, sem_value, sem_waiters, task_pc,
                   active_ids, enqueue_calls, enqueue_result, chunker_vars,
                   query_vars, retry_vars, shutdown_vars, alert_vars>>

\* process_request(request_id, endpoint, handler) is called by task t: it
\* takes a free slot and starts the handler, or waits for one
ProcessRequest(t) ==
    /\ task_pc[t] = "idle"
    /\ IF ~SemLocked
       THEN /\ sem_value' = sem_value - 1
            /\ metrics' = EnterRequest(metrics)
            /\ active_ids' = active_ids \cup {RequestIdOf(t)}
            /\ task_pc' = [task_pc EXCEPT ![t] = "running"]
            /\ UNCHANGED sem_waiters
       ELSE /\ sem_waiters' = Append(sem_waiters, t)
            /\ task_pc' = [task_pc EXCEPT ![t] = "waiting"]
            /\ UNCHANGED <<sem_value, metrics, active_ids>>
    /\ UNCHANGED <<max_workers, queue_size, request_queue, enqueue_calls,
                   enqueue_result, chunker_vars, query_vars, retry_vars, shutdown_vars, alert_vars>>

\* task t, handed a slot, resumes in acquire() and starts the handler
Resume(t) ==
    /\ task_pc[t] = "woken"
    /\ sem_waiters' = Without(sem_waiters, t)
    /\ LET woke == IF sem_value > 0
                   THEN WakeUpNext(sem_value, sem_waiters', task_pc)
                   ELSE [value |-> sem_value, pcs |-> task_pc]
       IN /\ sem_value' = woke.value
          /\ task_pc' = [woke.pcs EXCEPT ![t] = "running"]
    /\ metrics' = EnterRequest(metrics)
    /\ active_ids' = active_ids \cup {RequestIdOf(t)}
    /\ UNCHANGED <<max_workers, queue_size, request_queue, enqueue_calls,
                   enqueue_result, chunker_vars, query_vars, retry_vars, shutdown_vars, alert_vars>>

\* the finally clause and the end of the async with block
LeaveAndRelease(t, m, pc) ==
    /\ metrics' = LeaveRequest(m)
    /\ active_ids' = active_ids \ {RequestIdOf(t)}
    /\ sem_value' = Release(sem_value, sem_waiters, task_pc).value
    /\ task_pc' = [Release(sem_value, sem_waiters, task_pc).pcs EXCEPT ![t] = pc]
    /\ UNCHANGED <<max_workers, queue_size, request_queue, sem_waiters,
                   enqueue_calls, enqueue_result, chunker_vars, query_vars,
                   retry_vars, shutdown_vars, alert_vars>>

\* the handler of task t returns
HandlerReturns(t) ==
    /\ task_pc[t] = "running"
    /\ LeaveAndRelease(t, [metrics EXCEPT !.completed_requests = @ + 1], "done")

\* the handler of task t raises
HandlerRaises(t) ==
    /\ task_pc[t] = "running"
    /\ LeaveAndRelease(t, [metrics EXCEPT !.failed_requests = @ + 1], "raised")

\* the task of t is cancelled while its handler runs (by the asyncio.wait_for
\* of RequestTimeoutMiddleware, say): CancelledError is no Exception, the
\* except clause is passed over and the finally clause runs
HandlerCancelled(t) ==
    /\ task_pc[t] = "running"
    /\ LeaveAndRelease(t, metrics, "cancelled")

NextProcess ==
    \E t \in Tasks :
        \/ ProcessRequest(t)
        \/ Resume(t)
        \/ HandlerReturns(t)
        \/ HandlerRaises(t)
        \/ HandlerCancelled(t)

\* ConcurrencyMiddleware.__call__ for an http scope, run by task t up to
\* its first suspension: scope["headers"] is read with dict.get, so the list
\* of pairs of an ASGI server raises AttributeError at once; else the
\* request is enqueued, answered with 503 if the queue was full, and handed
\* to process_request otherwise. Nothing takes the request off the queue.
MiddlewareCall(t) ==
    /\ task_pc[t] = "idle"
    /\ \E headers \in {"dict", "list"} :
          IF headers = "list"
          THEN /\ task_pc' = [task_pc EXCEPT ![t] = "crashed"]
               /\ UNCHANGED <<request_queue, metrics, enqueue_calls, enqueue_result,
                              sem_value, sem_waiters, active_ids>>
          ELSE /\ enqueue_calls' = enqueue_calls + 1
               /\ IF QueueFull(request_queue, queue_size)
                  THEN /\ metrics' = [metrics EXCEPT !.failed_requests = @ + 1]
                       /\ enqueue_result' = FALSE
                       /\ task_pc' = [task_pc EXCEPT ![t] = "rejected"]
                       /\ UNCHANGED <<request_queue, sem_value, sem_waiters, active_ids>>
                  ELSE LET queued ==
                               [metrics EXCEPT
                                   !.queued_requests = @ + 1,
                                   !.total_requests = @ + 1,
                                   !.max_queue_depth = Max(@, Len(request_queue) + 1)]
                       IN /\ request_queue' = Append(request_queue, enqueue_calls')
                          /\ enqueue_result' = TRUE
                          /\ IF ~SemLocked
                             THEN /\ sem_value' = sem_value - 1
                                  /\ metrics' = EnterRequest(queued)
                                  /\ active_ids' = active_ids \cup {RequestIdOf(t)}
                                  /\ task_pc' = [task_pc EXCEPT ![t] = "running"]
                                  /\ UNCHANGED sem_waiters
                             ELSE /\ sem_waiters' = Append(sem_waiters, t)
                                  /\ task_pc' = [task_pc EXCEPT ![t] = "waiting"]
                                  /\ metrics' = queued
                                  /\ UNCHANGED <<sem_value, active_ids>>
    /\ UNCHANGED <<max_workers, queue_size, chunker_vars, query_vars, retry_vars,
                   shutdown_vars, alert_vars>>

\* HTTP requests served through the middleware, one per task
NextMiddleware ==
    \E t \in Tasks :
        \/ MiddlewareCall(t)
        \/ Resume(t)
        \/ HandlerReturns(t)
        \/ HandlerRaises(t)
        \/ HandlerCancelled(t)

SpecMiddleware == InitHandler /\ [][NextMiddleware]_vars

NextHandler ==
    \/ EnqueueRequest
    \/ DequeueRequest
    \/ NextProcess

SpecHandler == InitHandler /\ [][NextHandler]_vars

\* concurrent process_request calls under the event loop's scheduling: a
\* task whose future is done is resumed, and a handler that runs finishes
SpecProcessFair ==
    /\ InitHandler
    /\ [][NextProcess]_vars
    /\ \A t \in Tasks : WF_vars(Resume(t))
    /\ \A t \in Tasks : WF_vars(HandlerReturns(t) \/ HandlerRaises(t))

-----------------------------------------------------------------------------
(* ConcurrentRequestHandler claims *)

\* the tasks whose handler is executing
Executing == {t \in Tasks : task_pc[t] = "running"}

\* C19: under any interleaving of concurrent process_request calls on one
\* handler at most max_workers handlers execute at the same time:
\* metrics.active_requests counts the executing handlers and is at most
\* max_workers in every reachable state; and, running handlers finishing,
\* every call that waits for a slot eventually runs its handler.
C19_ConcurrencyLimit ==
    /\ [](metrics.active_requests <= max_workers)
    /\ [](metrics.active_requests = Cardinality(Executing))
    /\ [](metrics.active_requests >= 0)
    /\ \A t \in Tasks :
          (task_pc[t] \in {"waiting", "woken"}) ~> (task_pc[t] = "running")

\* all slots taken, one waiter handed the slot of a finished handler,
\* another still waiting
C19_Witness ==
    /\ metrics.active_requests + 1 = max_workers
    /\ metrics.completed_requests + metrics.failed_requests >= 1
    /\ \E t \in Tasks : task_pc[t] = "woken"
    /\ \E t \in Tasks : task_pc[t] = "waiting"

\* the tasks whose process_request call has ended in the given way
Ended(how) == {t \in Tasks : task_pc[t] = how}

\* C29: when a process_request call has ended, its handler having returned
\* or raised, metrics.active_requests is what it would be without the call,
\* the call has added one to completed_requests (handler returned) or to
\* failed_requests (handler raised, the exception reaching the caller) and
\* to nothing else, and its semaphore slot is free again; at any time
\* metrics.active_requests is the number of handlers executing. Stated for
\* concurrent calls of which each task makes one.
C29_CallBookkeeping ==
    /\ metrics.active_requests = Cardinality(Executing)
    /\ metrics.completed_requests = Cardinality(Ended("done"))
    /\ metrics.failed_requests = Cardinality(Ended("raised") \cup Ended("cancelled"))
    /\ sem_value + Cardinality(Executing) + Cardinality(Ended("woken")) = max_workers
    /\ active_ids \subseteq {RequestIdOf(t) : t \in Executing}

\* the tasks whose request is in progress
InProgress == {t \in Tasks : task_pc[t] \in {"waiting", "woken", "running"}}

\* C27: every request the middleware admitted has given its queue slot
\* back when it has finished: with no request in progress the request queue
\* is empty, so that the next request is not turned away with 503.
C27_QueueSlotReturned ==
    InProgress = {} => request_queue = <<>>

\* C20: enqueue_request on a queue that already holds queue_size requests
\* returns False, leaves the queue content, queued_requests and
\* total_requests as they are and adds one to failed_requests; otherwise it
\* returns True and the queue is one request deeper. The queue depth never
\* exceeds queue_size.
C20_EnqueueFull ==
    /\ [][enqueue_calls' = enqueue_calls + 1 =>
            IF Len(request_queue) >= queue_size
            THEN /\ enqueue_result' = FALSE
                 /\ request_queue' = request_queue
                 /\ metrics'.queued_requests = metrics.queued_requests
                 /\ metrics'.total_requests = metrics.total_requests
                 /\ metrics'.failed_requests = metrics.failed_requests + 1
            ELSE /\ enqueue_result' = TRUE
                 /\ Len(request_queue') = Len(request_queue) + 1
                 /\ SubSeq(request_queue', 1, Len(request_queue)) = request_queue
                 /\ metrics'.failed_requests = metrics.failed_requests]_vars
    /\ [](Len(request_queue) <= queue_size)

\* a request refused by a full queue of two requests or more
C20_Witness ==
    /\ enqueue_calls >= 1
    /\ enqueue_result = FALSE
    /\ queue_size >= 2
    /\ Len(request_queue) = queue_size
    /\ metrics.failed_requests >= 1
    /\ metrics.total_requests = enqueue_calls - 1

-----------------------------------------------------------------------------
(* Further chunker and query claims *)

\* the fixed answer test_query_no_results expects
NoInformationAnswer == Message("I don't have any relevant information")

\* C23: when the vector store returns no chunks for a question, query() does
\* not call the LLM generator at all and returns a fixed answer saying it
\* does not have any relevant information, with sources == [] and query equal
\* to the question.
C23_NoLLMOnEmptyRetrieval ==
    (Returned /\ intent = "KNOWLEDGE" /\ IndexAnswered /\ retrieved_chunks = <<>>) =>
        /\ \A k \in 1..Len(calls) : calls[k].to # "llm"
        /\ response.answer = NoInformationAnswer
        /\ response.sources = <<>>
        /\ response.query = question

\* C24: in the chunk sequence of chunk_document every chunk after the first
\* ends strictly after the end of the chunk before it, so no chunk lies
\* wholly inside its predecessor, and the chunk that reaches the end of the
\* content is the last one emitted.
C24_EndsStrictlyIncrease ==
    /\ \A k \in 2..Len(chunks) : ChunkEnd(k) > ChunkEnd(k - 1)
    /\ \A k \in 1..(Len(chunks) - 1) : ChunkEnd(k) < Len(text)

\* the collaborators of the retrieval path, in the order query() uses them
RetrievalOrder == <<"embed", "index", "llm">>

\* C26: within one query() call for a KNOWLEDGE question the collaborators
\* are invoked in the order embed(question), index query(embedding,
\* n_results), LLM generate, each at most once; when one of them raises, it
\* is the last one invoked: no later collaborator is called and nothing is
\* tried again.
C26_CollaboratorOrder ==
    /\ [](intent = "KNOWLEDGE" =>
            /\ Len(calls) <= 3
            /\ CallsTo = SubSeq(RetrievalOrder, 1, Len(calls))
            /\ Len(calls) >= 1 => calls[1].arg = question
            /\ Len(calls) >= 2 =>
                  calls[2].arg = <<EmbeddingOf(question), DefaultNResults>>
            /\ failed # "none" =>
                  /\ Returned
                  /\ calls[Len(calls)].to = failed)
    /\ [][failed # "none" => calls' = calls]_vars

\* the vector index raised: the embedding provider and the index were called
\* once each, the LLM generator never
C26_Witness ==
    /\ Returned
    /\ intent = "KNOWLEDGE"
    /\ failed = "index"
    /\ CallsTo = <<"embed", "index">>

\* position i of t ends a boundary marker: a newline, or whitespace after
\* '.', '?' or '!'
IsBoundaryEnd(t, i) ==
    \/ t[i] = "\n"
    \/ i >= 2 /\ t[i - 1] \in {".", "?", "!"} /\ IsSpace(t[i])

\* one scan from position i backward: where the last boundary marker ends,
\* 0 if there is none
RECURSIVE BackwardScan(_, _)
BackwardScan(t, i) ==
    IF i = 0 THEN 0
    ELSE IF IsBoundaryEnd(t, i) THEN i
    ELSE BackwardScan(t, i - 1)

HasBoundary(w) == BackwardScan(w, Len(w)) > 0

\* w cut where its last boundary marker ends, trailing whitespace dropped
CutAtBoundary(w) == RStrip(SliceTo(w, BackwardScan(w, Len(w))))

\* the split a single backward scan gives
ScanSplit(w) == IF HasBoundary(w) THEN CutAtBoundary(w) ELSE w

\* the window of the k-th chunk, and whether it stops short of the end
WindowOf(k) == Slice(text, starts[k], Min(starts[k] + chunk_size, Len(text)))
NonFinal(k) == starts[k] + chunk_size < Len(text)

\* C25 as stated: for a non-final window the emitted chunk is the window cut
\* at the end of the last sentence-ending pattern in it, trailing whitespace
\* dropped; without a pattern it is the whole window of exactly chunk_size
\* characters; and the split equals that of a single backward scan.
C25_CutAtLastBoundary ==
    \A k \in 1..Len(chunks) :
        NonFinal(k) =>
            /\ SplitOnSentences(WindowOf(k)) = ScanSplit(WindowOf(k))
            /\ IF HasBoundary(WindowOf(k))
               THEN chunks[k].text = CutAtBoundary(WindowOf(k))
               ELSE /\ chunks[k].text = WindowOf(k)
                    /\ Len(chunks[k].text) = chunk_size

\* C25, amended: for a non-final window the emitted chunk is the window cut
\* at the end of the last sentence-ending pattern in it ('.', '?' or '!'
\* followed by whitespace, or a newline), trailing whitespace dropped, unless
\* that leaves nothing; if the window has no such pattern, or only whitespace
\* before its last one, the chunk is the whole window of exactly chunk_size
\* characters. The split equals that of a single backward scan for the last
\* boundary marker of any of the four kinds.
C25_CutOrWholeWindow ==
    \A k \in 1..Len(chunks) :
        NonFinal(k) =>
            /\ SplitOnSentences(WindowOf(k)) = ScanSplit(WindowOf(k))
            /\ IF HasBoundary(WindowOf(k)) /\ CutAtBoundary(WindowOf(k)) # <<>>
               THEN chunks[k].text = CutAtBoundary(WindowOf(k))
               ELSE /\ chunks[k].text = WindowOf(k)
                    /\ Len(chunks[k].text) = chunk_size

\* a non-final window cut after a '?' or a '!'
C25_Witness ==
    \E k \in 1..Len(chunks) :
        /\ NonFinal(k)
        /\ Len(chunks[k].text) < chunk_size
        /\ chunks[k].text[Len(chunks[k].text)] \in {"?", "!"}

-----------------------------------------------------------------------------
(* GracefulShutdownHandler *)

\* what a registered callback does when it is called; a Callable need not
\* have a __name__ (a functools.partial, an object with __call__), and the
\* call of such a one is never reached
CallbackKinds == {"returns", "raises", "nameless"}

\* what a notification handler does when it is called
HandlerKinds == {"returns", "raises"}

\* one step shutdown() has run: the wait, callback k of a list, or the
\* closing of the database connections
ShutdownStep(step, k, raised) == [step |-> step, k |-> k, raised |-> raised]

\* asyncio.sleep(check_interval), with check_interval one second: the clock
\* seen by the next check
AfterSleep(now) == IF now < MaxShutdownClock THEN now + 1 ELSE now

\* ShutdownContext.is_timeout(): False while shutdown_start_time is not set
IsTimeout ==
    /\ shutdown_start_time # NoTime
    /\ shutdown_clock - shutdown_start_time > max_shutdown_time

\* try: logger.debug(f"... {callback.__name__}"); callback()
\* except Exception as e: logger.error(f"... {callback.__name__}: {e}")
\* An exception of the callback is logged and the loop goes on; without a
\* __name__ the try block raises AttributeError before the call, and the
\* except clause raises it again, out of shutdown()
AfterCleanup(kind, next) == IF kind = "nameless" THEN "raised" ELSE next

\* GracefulShutdownHandler(): ShutdownContext's defaults, no callbacks;
\* max_shutdown_time is a plain attribute the owner sets
InitShutdown ==
    /\ NoChunker
    /\ NoQueryEngine
    /\ NoLLMClient
    /\ NoRequestHandler
    /\ NoAlertManager
    /\ shutdown_pc = "idle"
    /\ is_shutting_down = FALSE
    /\ shutdown_start_time = NoTime
    /\ in_flight_requests = 0
    /\ max_shutdown_time \in 1..MaxShutdownTime
    /\ cleanup_callbacks = <<>>
    /\ async_cleanup_callbacks = <<>>
    /\ callback_index = 0
    /\ shutdown_clock = 0
    /\ shutdown_began = NoTime
    /\ shutdown_log = <<>>

\* register_cleanup(callback), before shutdown() is called: the callback is
\* appended, and then logged by its __name__
RegisterCleanup ==
    /\ shutdown_pc = "idle"
    /\ Len(cleanup_callbacks) < MaxCallbacks
    /\ \E kind \in CallbackKinds :
          cleanup_callbacks' = Append(cleanup_callbacks, kind)
    /\ UNCHANGED <<shutdown_pc, is_shutting_down, shutdown_start_time,
                   in_flight_requests, max_shutdown_time, async_cleanup_callbacks,
                   callback_index, shutdown_clock, shutdown_began, shutdown_log,
                   chunker_vars, query_vars, retry_vars, handler_vars, alert_vars>>

\* register_async_cleanup(callback), before shutdown() is called
RegisterAsyncCleanup ==
    /\ shutdown_pc = "idle"
    /\ Len(async_cleanup_callbacks) < MaxCallbacks
    /\ \E kind \in CallbackKinds :
          async_cleanup_callbacks' = Append(async_cleanup_callbacks, kind)
    /\ UNCHANGED <<shutdown_pc, is_shutting_down, shutdown_start_time,
                   in_flight_requests, max_shutdown_time, cleanup_callbacks,
                   callback_index, shutdown_clock, shutdown_began, shutdown_log,
                   chunker_vars, query_vars, retry_vars, handler_vars, alert_vars>>

\* increment_in_flight_requests()
IncrementInFlight ==
    /\ in_flight_requests < MaxInFlight
    /\ in_flight_requests' = in_flight_requests + 1
    /\ UNCHANGED <<shutdown_pc, is_shutting_down, shutdown_start_time,
                   max_shutdown_time, cleanup_callbacks, async_cleanup_callbacks,
                   callback_index, shutdown_clock, shutdown_began, shutdown_log,
                   chunker_vars, query_vars, retry_vars, handler_vars, alert_vars>>

\* decrement_in_flight_requests(): never below zero
DecrementInFlight ==
    /\ in_flight_requests' = IF in_flight_requests > 0
                             THEN in_flight_requests - 1
                             ELSE in_flight_requests
    /\ UNCHANGED <<shutdown_pc, is_shutting_down, shutdown_start_time,
                   max_shutdown_time, cleanup_callbacks, async_cleanup_callbacks,
                   callback_index, shutdown_clock, shutdown_began, shutdown_log,
                   chunker_vars, query_vars, retry_vars, handler_vars, alert_vars>>

\* the handler setup_signal_handlers() installs receives SIGTERM or SIGINT
SignalHandler ==
    /\ is_shutting_down' = TRUE
    /\ shutdown_start_time' = shutdown_clock
    /\ shutdown_began' = IF shutdown_began = NoTime THEN shutdown_clock
                         ELSE shutdown_began
    /\ UNCHANGED <<shutdown_pc, in_flight_requests, max_shutdown_time,
                   cleanup_callbacks, async_cleanup_callbacks, callback_index,
                   shutdown_clock, shutdown_log,
                   chunker_vars, query_vars, retry_vars, handler_vars, alert_vars>>

\* shutdown() is called
Shutdown ==
    /\ shutdown_pc = "idle"
    /\ shutdown_pc' = "waiting"
    /\ shutdown_began' = IF shutdown_began = NoTime THEN shutdown_clock
                         ELSE shutdown_began
    /\ UNCHANGED <<is_shutting_down, shutdown_start_time, in_flight_requests,
                   max_shutdown_time, cleanup_callbacks, async_cleanup_callbacks,
                   callback_index, shutdown_clock, shutdown_log,
                   chunker_vars, query_vars, retry_vars, handler_vars, alert_vars>>

\* one turn of wait_for_in_flight_requests()'s loop: the wait ends when no
\* request is in flight or is_timeout() holds, and sleeps otherwise
WaitForInFlightRequests ==
    /\ shutdown_pc = "waiting"
    /\ IF in_flight_requests > 0 /\ ~IsTimeout
       THEN /\ shutdown_clock' = AfterSleep(shutdown_clock)
            /\ UNCHANGED <<shutdown_pc, callback_index, shutdown_log>>
       ELSE /\ shutdown_pc' = "async_cleanup"
            /\ callback_index' = 1
            /\ shutdown_log' = Append(shutdown_log,
                                      ShutdownStep("wait", 0, in_flight_requests > 0))
            /\ UNCHANGED shutdown_clock
    /\ UNCHANGED <<is_shutting_down, shutdown_start_time, in_flight_requests,
                   max_shutdown_time, cleanup_callbacks, async_cleanup_callbacks,
                   shutdown_began,
                   chunker_vars, query_vars, retry_vars, handler_vars, alert_vars>>

\* one turn of the loop over a callback list, and the step after the loop
RunCallbacks(here, callbacks, step, after) ==
    /\ shutdown_pc = here
    /\ IF callback_index <= Len(callbacks)
       THEN /\ shutdown_log' =
                   IF callbacks[callback_index] = "nameless"
                   THEN shutdown_log
                   ELSE Append(shutdown_log,
                               ShutdownStep(step, callback_index,
                                            callbacks[callback_index] = "raises"))
            /\ shutdown_pc' = AfterCleanup(callbacks[callback_index], here)
            /\ callback_index' = callback_index + 1
       ELSE /\ shutdown_pc' = after
            /\ callback_index' = 1
            /\ UNCHANGED shutdown_log
    /\ UNCHANGED <<is_shutting_down, shutdown_start_time, in_flight_requests,
                   max_shutdown_time, cleanup_callbacks, async_cleanup_callbacks,
                   shutdown_clock, shutdown_began,
                   chunker_vars, query_vars, retry_vars, handler_vars, alert_vars>>

\* for callback in self.async_cleanup_callbacks: await callback()
AsyncCleanup ==
    RunCallbacks("async_cleanup", async_cleanup_callbacks, "async", "sync_cleanup")

\* for callback in self.cleanup_callbacks: callback()
SyncCleanup ==
    RunCallbacks("sync_cleanup", cleanup_callbacks, "sync", "close_db")

\* self.close_database_connections(), and shutdown() returns
CloseDatabaseConnections ==
    /\ shutdown_pc = "close_db"
    /\ shutdown_log' = Append(shutdown_log, ShutdownStep("close_db", 0, FALSE))
    /\ shutdown_pc' = "done"
    /\ UNCHANGED <<is_shutting_down, shutdown_start_time, in_flight_requests,
                   max_shutdown_time, cleanup_callbacks, async_cleanup_callbacks,
                   callback_index, shutdown_clock, shutdown_began,
                   chunker_vars, query_vars, retry_vars, handler_vars, alert_vars>>

NextShutdown ==
    \/ RegisterCleanup
    \/ RegisterAsyncCleanup
    \/ IncrementInFlight
    \/ DecrementInFlight
    \/ SignalHandler
    \/ Shutdown
    \/ WaitForInFlightRequests
    \/ AsyncCleanup
    \/ SyncCleanup
    \/ CloseDatabaseConnections

SpecShutdown == InitShutdown /\ [][NextShutdown]_vars

-----------------------------------------------------------------------------
(* GracefulShutdownHandler claims *)

\* the invocations of the callbacks of a list, in registration order
CallbackRun(callbacks, step) ==
    [k \in 1..Len(callbacks) |-> ShutdownStep(step, k, callbacks[k] = "raises")]

\* the steps shutdown_log holds of one kind
StepsOf(step) == SelectSeq(shutdown_log, LAMBDA e : e.step = step)

\* s is the beginning of t
IsPrefix(s, t) == Len(s) <= Len(t) /\ s = SubSeq(t, 1, Len(s))

\* C21: shutdown() runs its steps in a fixed order: the wait for the
\* in-flight requests, then every async cleanup callback in registration
\* order, then every sync cleanup callback in registration order, then the
\* closing of the database connections. No exception leaves shutdown() once
\* the callbacks run, no callback is passed over, and when shutdown() has
\* returned every registered callback was invoked exactly once.
C21_ShutdownOrder ==
    /\ shutdown_pc # "raised"
    /\ shutdown_pc \in {"sync_cleanup", "close_db", "done"} =>
          Len(StepsOf("async")) = Len(async_cleanup_callbacks)
    /\ shutdown_pc \in {"close_db", "done"} =>
          Len(StepsOf("sync")) = Len(cleanup_callbacks)
    /\ Len(StepsOf("wait")) <= 1
    /\ shutdown_log # <<>> => shutdown_log[1].step = "wait"
    /\ IsPrefix(SubSeq(shutdown_log, 2, Len(shutdown_log)),
                CallbackRun(async_cleanup_callbacks, "async")
                    \o CallbackRun(cleanup_callbacks, "sync")
                    \o <<ShutdownStep("close_db", 0, FALSE)>>)
    /\ shutdown_pc = "done" =>
          /\ StepsOf("async") = CallbackRun(async_cleanup_callbacks, "async")
          /\ StepsOf("sync") = CallbackRun(cleanup_callbacks, "sync")
          /\ shutdown_log[Len(shutdown_log)].step = "close_db"

\* C28: shutdown() always terminates: with requests in flight that never
\* complete, the wait stops once max_shutdown_time seconds have passed since
\* shutdown began, by a signal or by a direct call of shutdown(). The loop
\* looks at the clock once a second, so shutdown() is never found waiting
\* more than one second after that deadline.
C28_ShutdownTerminates ==
    shutdown_pc = "waiting" =>
        shutdown_clock - shutdown_began <= max_shutdown_time + 1

-----------------------------------------------------------------------------
(* AlertManager *)

AlertTypes == {"response_time", "error_rate", "component_health", "uptime"}

\* AlertConfig(threshold_type, threshold_value, severity, enabled)
AlertConfig(value, severity, enabled) ==
    [threshold_value |-> value, severity |-> severity, enabled |-> enabled]

\* _initialize_default_alerts(): response time in ms, error rate and uptime
\* in percent
DefaultAlertConfigs ==
    [T \in AlertTypes |->
        CASE T = "response_time" -> AlertConfig(1000, "warning", TRUE)
          [] T = "error_rate" -> AlertConfig(5, "warning", TRUE)
          [] T = "component_health" -> AlertConfig(0, "critical", TRUE)
          [] T = "uptime" -> AlertConfig(99, "warning", TRUE)]

\* self.alert_cooldown_seconds = 300
DefaultCooldownSeconds == 300

\* Keep only last 1000 alerts
HistoryLimit == 1000

\* Alert(alert_type, severity, message, timestamp, value, threshold); the
\* message, a rendering of value and threshold, is left out
Alert(T, severity, timestamp, value, threshold) ==
    [alert_type |-> T, severity |-> severity, timestamp |-> timestamp,
     value |-> value, threshold |-> threshold]

\* one invocation of a notification handler
Notification(k, alert, raised) == [handler |-> k, alert |-> alert, raised |-> raised]

\* self.alert_history[-1000:]
LastAlerts(history) ==
    IF Len(history) > HistoryLimit
    THEN SubSeq(history, Len(history) - HistoryLimit + 1, Len(history))
    ELSE history

\* mutant: an alert is also held back when exactly alert_cooldown_seconds
\* have elapsed
InCooldown_Inclusive(T) ==
    /\ last_alert_time[T] # NoTime
    /\ alert_clock - last_alert_time[T] <= alert_cooldown_seconds

\* the cooldown test of _create_and_send_alert
InCooldown(T) ==
    /\ last_alert_time[T] # NoTime
    /\ alert_clock - last_alert_time[T] < alert_cooldown_seconds

\* AlertManager(); alert_cooldown_seconds is a plain attribute the owner sets
InitAlerts ==
    /\ NoChunker
    /\ NoQueryEngine
    /\ NoLLMClient
    /\ NoRequestHandler
    /\ NoShutdownHandler
    /\ alert_cooldown_seconds \in (0..MaxCooldown) \cup {DefaultCooldownSeconds}
    /\ alert_configs = DefaultAlertConfigs
    /\ alert_history = <<>>
    /\ notification_handlers = <<>>
    /\ last_alert_time = [T \in AlertTypes |-> NoTime]
    /\ alert_clock = 0
    /\ notified = <<>>
    /\ check_result = NoAlert
    /\ last_check = NoCheck
    /\ checks_made = 0

\* a second passes
AlertTick ==
    /\ alert_clock < MaxAlertClock
    /\ alert_clock' = alert_clock + 1
    /\ UNCHANGED <<alert_cooldown_seconds, alert_configs, alert_history,
                   notification_handlers, last_alert_time, notified, check_result,
                   last_check, checks_made,
                   chunker_vars, query_vars, retry_vars, handler_vars, shutdown_vars>>

\* register_notification_handler(handler), before the first check
RegisterNotificationHandler ==
    /\ checks_made = 0
    /\ Len(notification_handlers) < MaxHandlers
    /\ \E kind \in HandlerKinds :
          notification_handlers' = Append(notification_handlers, kind)
    /\ UNCHANGED <<alert_cooldown_seconds, alert_configs, alert_history,
                   last_alert_time, alert_clock, notified, check_result,
                   last_check, checks_made,
                   chunker_vars, query_vars, retry_vars, handler_vars, shutdown_vars>>

\* the alert types whose configuration is disabled
Disabled(configs) == {T \in AlertTypes : ~configs[T].enabled}

\* add_alert_config(config), before the first check: the default
\* configuration of a type, enabled or disabled
AddAlertConfig ==
    /\ checks_made = 0
    /\ \E T \in AlertTypes, enabled \in BOOLEAN :
          alert_configs' = [alert_configs EXCEPT
                               ![T] = AlertConfig(DefaultAlertConfigs[T].threshold_value,
                                                  DefaultAlertConfigs[T].severity,
                                                  enabled)]
    /\ Cardinality(Disabled(alert_configs')) <= MaxDisabled
    /\ UNCHANGED <<alert_cooldown_seconds, alert_history, notification_handlers,
                   last_alert_time, alert_clock, notified, check_result,
                   last_check, checks_made,
                   chunker_vars, query_vars, retry_vars, handler_vars, shutdown_vars>>

\* _create_and_send_alert(alert_type, severity, message, value, threshold)
CreateAndSendAlert(T, severity, value, threshold) ==
    IF InCooldown(T)
    THEN /\ check_result' = NoAlert
         /\ UNCHANGED <<alert_history, last_alert_time, notified>>
    ELSE LET alert == Alert(T, severity, alert_clock, value, threshold)
         IN /\ alert_history' = LastAlerts(Append(alert_history, alert))
            /\ last_alert_time' = [last_alert_time EXCEPT ![T] = alert_clock]
            /\ notified' = notified \o
                  [k \in 1..Len(notification_handlers) |->
                      Notification(k, alert, notification_handlers[k] = "raises")]
            /\ check_result' = alert

\* what the four check_* methods share: nothing is checked without an
\* enabled configuration, and a violation goes to _create_and_send_alert
Check(T, violation, severity, value, threshold) ==
    /\ checks_made < MaxChecks
    /\ checks_made' = checks_made + 1
    /\ last_check' = [alert_type |-> T,
                      violation |-> alert_configs[T].enabled /\ violation]
    /\ IF alert_configs[T].enabled /\ violation
       THEN CreateAndSendAlert(T, severity, value, threshold)
       ELSE /\ check_result' = NoAlert
            /\ UNCHANGED <<alert_history, last_alert_time, notified>>
    /\ UNCHANGED <<alert_cooldown_seconds, alert_configs, notification_handlers,
                   alert_clock,
                   chunker_vars, query_vars, retry_vars, handler_vars, shutdown_vars>>

\* check_response_time(p95_response_time_ms)
CheckResponseTime ==
    \E d \in {0, 1} :
        LET v == alert_configs["response_time"].threshold_value + d
        IN Check("response_time", v > alert_configs["response_time"].threshold_value,
                 alert_configs["response_time"].severity, v,
                 alert_configs["response_time"].threshold_value)

\* check_error_rate(error_rate)
CheckErrorRate ==
    \E d \in {0, 1} :
        LET v == alert_configs["error_rate"].threshold_value + d
        IN Check("error_rate", v > alert_configs["error_rate"].threshold_value,
                 alert_configs["error_rate"].severity, v,
                 alert_configs["error_rate"].threshold_value)

\* check_component_health(component_name, health_status): value and
\* threshold of the alert are 0.0
CheckComponentHealth ==
    \E status \in {"healthy", "degraded", "unhealthy"} :
        Check("component_health", status # "healthy",
              IF status = "unhealthy"
              THEN alert_configs["component_health"].severity
              ELSE "warning",
              0, 0)

\* check_uptime(uptime_percentage)
CheckUptime ==
    \E d \in {0, 1} :
        LET v == alert_configs["uptime"].threshold_value - d
        IN Check("uptime", v < alert_configs["uptime"].threshold_value,
                 alert_configs["uptime"].severity, v,
                 alert_configs["uptime"].threshold_value)

NextAlerts ==
    \/ AlertTick
    \/ RegisterNotificationHandler
    \/ AddAlertConfig
    \/ CheckResponseTime
    \/ CheckErrorRate
    \/ CheckComponentHealth
    \/ CheckUptime

SpecAlerts == InitAlerts /\ [][NextAlerts]_vars

-----------------------------------------------------------------------------
(* AlertManager claims *)

\* C22: while less than alert_cooldown_seconds have elapsed since the last
\* recorded alert of a type, a further violation of that type gives no
\* alert: the check returns None, alert_history and last_alert_time stay as
\* they are and no handler is invoked. The first violation of a type, and a
\* violation once the cooldown has elapsed, is recorded and handed to every
\* registered handler, in registration order, whether a handler raises or
\* not. A violation is a threshold passed of a type whose configuration is
\* enabled.
C22_Cooldown ==
    [][(checks_made' = checks_made + 1 /\ last_check'.violation) =>
          LET T == last_check'.alert_type
              recorded == last_alert_time[T]
          IN IF recorded # NoTime /\ alert_clock - recorded < alert_cooldown_seconds
             THEN /\ check_result' = NoAlert
                  /\ alert_history' = alert_history
                  /\ last_alert_time' = last_alert_time
                  /\ notified' = notified
             ELSE /\ check_result' # NoAlert
                  /\ check_result'.alert_type = T
                  /\ check_result'.timestamp = alert_clock
                  /\ alert_history' = Append(alert_history, check_result')
                  /\ last_alert_time' = [last_alert_time EXCEPT ![T] = alert_clock]
                  /\ Len(notified') = Len(notified) + Len(notification_handlers)
                  /\ SubSeq(notified', 1, Len(notified)) = notified
                  /\ \A k \in 1..Len(notification_handlers) :
                        /\ notified'[Len(notified) + k].handler = k
                        /\ notified'[Len(notified) + k].alert = check_result']_vars

\* an alert handed to two handlers, the first of which raised, and then a
\* violation of the same type held back by the cooldown
C22_Witness ==
    /\ last_check.violation
    /\ check_result = NoAlert
    /\ checks_made = 2
    /\ Len(alert_history) = 1
    /\ alert_history[1].alert_type = last_check.alert_type
    /\ alert_clock - alert_history[1].timestamp < alert_cooldown_seconds
    /\ Len(notification_handlers) = 2
    /\ notification_handlers[1] = "raises"
    /\ Len(notified) = 2

-----------------------------------------------------------------------------
(* QueryEngine: state across calls *)

\* the same question was asked and the collaborators answered the same
SameCall(a, b) ==
    /\ a.question = b.question
    /\ a.failed = b.failed
    /\ a.retrieved = b.retrieved

====
